---- MODULE Spec2Model ----
(***************************************************************************)
(* Model of the NovelMind build orchestrator (editor/src/build_system.cpp). *)
(*                                                                         *)
(* Two threads are modelled: the caller thread (startBuild, cancelBuild)   *)
(* and the worker thread started by startBuild (runBuildPipeline and the   *)
(* six stage functions).  The worker is cut into atomic steps so that each *)
(* step reads the atomic flag m_cancelRequested at most once; a            *)
(* cancelBuild of the caller can fall between any two of them.             *)
(*                                                                         *)
(* The file system is modelled by the top-level entries of the output      *)
(* directory and of <output>/.staging.  File-system faults (a call that    *)
(* throws std::filesystem::filesystem_error, a stream that does not open)  *)
(* are choices of the environment, drawn with \E in the step they hit.     *)
(* The callbacks are taken to be registered (the code skips a null one).   *)
(***************************************************************************)
EXTENDS Integers, Sequences, FiniteSets, TLC

\* ------------------------------------------------------------------ bounds
MaxScripts == 2
MaxAssets == 2
MaxLangs == 2

\* ------------------------------------------------------- small helpers
Max2(a, b) == IF a >= b THEN a ELSE b

RECURSIVE Factorial(_)
Factorial(n) == IF n <= 1 THEN 1 ELSE n * Factorial(n - 1)

RECURSIVE SumSeq(_)
SumSeq(s) == IF s = <<>> THEN 0 ELSE Head(s) + SumSeq(Tail(s))

RECURSIVE Pow2(_)
Pow2(n) == IF n <= 0 THEN 1 ELSE 2 * Pow2(n - 1)

Range(s) == {s[i] : i \in DOMAIN s}

\* ------------------------------------------------- f32 arithmetic (weights)
\* A positive f32 below 2 is held exactly as an integer count of 2^-28.
\* F32Exp(h): the binary exponent e with 2^e <= h/100 < 2^(e+1), as -e.
RECURSIVE F32NegExp(_, _)
F32NegExp(h, k) == IF h * Pow2(k) >= 100 THEN k ELSE F32NegExp(h, k + 1)

\* Round-half-to-even of the quotient n / d.
RoundHalfEven(n, d) ==
    LET q == n \div d
        r == n % d
    IN  IF 2 * r < d THEN q
        ELSE IF 2 * r > d THEN q + 1
        ELSE IF q % 2 = 0 THEN q ELSE q + 1

\* The f32 literal nearest to h hundredths (0.05f is F32Literal(5)): a 24-bit
\* significand m with value m * 2^(-23-k), k = F32NegExp, in units of 2^-28.
F32Literal(h) ==
    LET k == F32NegExp(h, 0)
        m == RoundHalfEven(h * Pow2(23 + k), 100)
    IN  m * Pow2(5 - k)

\* Number of low bits an exact sum must drop to fit a 24-bit significand.
RECURSIVE F32Drop(_, _)
F32Drop(s, k) == IF s < Pow2(24 + k) THEN k ELSE F32Drop(s, k + 1)

\* f32 addition (round to nearest, ties to even) of two values in 2^-28 units.
F32Add(a, b) ==
    LET s == a + b
        k == F32Drop(s, 0)
    IN  RoundHalfEven(s, Pow2(k)) * Pow2(k)

F32One == Pow2(28)

RECURSIVE F32Sum(_)
F32Sum(s) == IF s = <<>> THEN 0 ELSE F32Add(F32Sum(SubSeq(s, 1, Len(s) - 1)), s[Len(s)])

\* ------------------------------------------------------ progress arithmetic
\* Step progress is a fraction num/den; the aggregate progress is held exactly
\* in units of 1/(100*ProgressDen), so that 1.0 is ProgressOne.
ProgressDen == 20 * Factorial(Max2(MaxScripts, Max2(MaxAssets, MaxLangs)))
ProgressOne == 100 * ProgressDen

\* ----------------------------------------------------------- the project
\* The project tree on disk: what validateProject looks for, and how many
\* script and asset files the recursive scans of Preflight find (scripts
\* only, assets only, or as many of the one as of the other).
ProjectDir == "proj"

Projects ==
    {p \in {[json |-> TRUE, scriptsDir |-> TRUE, assetsDir |-> TRUE, scripts |-> s,
              assets |-> a] : s \in 0..MaxScripts, a \in 0..MaxAssets} :
        p.scripts = 0 \/ p.assets = 0 \/ p.scripts = p.assets}
    \cup {[json |-> FALSE, scriptsDir |-> TRUE, assetsDir |-> TRUE, scripts |-> 0, assets |-> 0],
          [json |-> TRUE, scriptsDir |-> FALSE, assetsDir |-> FALSE, scripts |-> 0, assets |-> 0]}

\* Mutant: the existence check of startBuild is missing.
ProjectExists_Always(path) == TRUE

\* fs::exists(config.projectPath): the one project directory of the model.
ProjectExists(path) == path = ProjectDir

\* ------------------------------------------------------------ BuildConfig
\* The fields of BuildConfig the pipeline's control flow reads.
ValidConfigs ==
    {[projectPath |-> ProjectDir, outputPath |-> "out", packAssets |-> FALSE, languages |-> 0]}
    \cup {[projectPath |-> ProjectDir, outputPath |-> "out", packAssets |-> TRUE, languages |-> n] :
            n \in {0, MaxLangs}}

InvalidConfigs ==
    {[projectPath |-> p, outputPath |-> o, packAssets |-> TRUE, languages |-> 0] :
        p \in {"", "missing", ProjectDir}, o \in {"", "out"}}
    \ {[projectPath |-> ProjectDir, outputPath |-> "out", packAssets |-> TRUE, languages |-> 0]}

Configs == ValidConfigs \cup InvalidConfigs

DefaultConfig == [projectPath |-> "", outputPath |-> "", packAssets |-> TRUE, languages |-> 0]

\* ------------------------------------------------------------- BuildStep
StepNames == <<"Preflight", "Compile", "Index", "Pack", "Bundle", "Verify">>

\* progressWeight literals of startBuild, in hundredths (0.05f is 5).
StepWeights == <<5, 15, 10, 35, 25, 10>>

StepDescriptions ==
    <<"Validating project structure", "Compiling scripts", "Building resource index",
      "Creating resource packs", "Bundling runtime", "Verifying build">>

\* Mutant: the Pack step is given weight 0.30 instead of 0.35.
InitialSteps_Skewed ==
    [i \in 1..6 |->
        [name |-> StepNames[i], description |-> StepDescriptions[i],
         progressWeight |-> IF i = 4 THEN 30 ELSE StepWeights[i], completed |-> FALSE,
         success |-> TRUE, errorMessage |-> <<>>]]

\* m_progress.steps = { {"Preflight", ..., 0.05f, false, true, "", 0.0}, ... }
InitialSteps ==
    [i \in 1..6 |->
        [name |-> StepNames[i], description |-> StepDescriptions[i],
         progressWeight |-> StepWeights[i], completed |-> FALSE, success |-> TRUE,
         errorMessage |-> <<>>]]

\* BuildProgress{}: the value-initialised progress record.  infoMessages,
\* warnings and errors are the sets of the messages in the vectors; a warning
\* or an error is the pair of the file it is about and its text.
DefaultProgress ==
    [steps |-> <<>>, currentStepIndex |-> 0, progress |-> 0,
     isRunning |-> FALSE, isComplete |-> FALSE, wasSuccessful |-> FALSE,
     wasCancelled |-> FALSE, infoMessages |-> {}, warnings |-> {}, errors |-> {},
     filesProcessed |-> 0]

\* BuildResult{}
DefaultResult ==
    [success |-> FALSE, errorMessage |-> <<>>, scriptsCompiled |-> 0, assetsProcessed |-> 0,
     totalSize |-> 0, compressedSize |-> 0]

\* No resource_manifest.json in the staging tree.
NoManifest == [written |-> FALSE, resource_count |-> 0, resources |-> {}]

\* Nothing measured: signAndFinalize has not come to lines 963-980.
NoSizes == [measured |-> FALSE, totalSize |-> 0, compressedSize |-> 0]

\* ------------------------------------------------------------- messages
ErrAlreadyInProgress == <<"Build already in progress">>
ErrProjectRequired == <<"Project path is required">>
ErrOutputRequired == <<"Output path is required">>
ErrProjectMissing(path) == <<"Project path does not exist: ", path>>
ErrCancelled == <<"Build cancelled">>
ErrException == <<"Build exception: ">>
Ok == <<"ok">>

\* An error message mentions a path when the path is one of its fragments
\* (messages are kept as the sequence of strings the code concatenates).
Mentions(msg, path) == \E i \in DOMAIN msg : msg[i] = path

\* ------------------------------------------------------------- buildPack
\* buildPack(outputPath, files, encrypt, compress), lines 1257-1406, as a
\* function of what it reads: whether the output stream opens and the input
\* files.  An input file is a path, its filename, its bytes and its status:
\* "regular" (readable), "unreadable" (it exists, so fs::file_size answers, but
\* an ifstream on it does not open) or "missing" (fs::file_size throws).
MaxPackFiles == 3

PackInputs ==
    {[path |-> "assets/a.png", name |-> "a.png", bytes |-> <<1, 2>>, status |-> "regular"],
     [path |-> "assets/en/a.png", name |-> "a.png", bytes |-> <<3>>, status |-> "regular"],
     [path |-> "assets/empty.dat", name |-> "empty.dat", bytes |-> <<>>, status |-> "regular"],
     [path |-> "assets/locked.bin", name |-> "locked.bin", bytes |-> <<4>>,
      status |-> "unreadable"],
     [path |-> "assets/gone.bin", name |-> "gone.bin", bytes |-> <<>>, status |-> "missing"]}

RECURSIVE SeqsUpTo(_, _)
\* The sequences over S of length at most n.
SeqsUpTo(S, n) ==
    IF n = 0 THEN {<<>>}
    ELSE LET shorter == SeqsUpTo(S, n - 1)
         IN  shorter \cup {Append(q, x) : q \in shorter, x \in S}

\* Sizes of the fixed parts of a pack: header, resource-table entry, footer.
HeaderSize == 64
ResourceEntrySize == 48
FooterSize == 32

\* fs::file_size(files[i]), line 1330.
FileSize(f) == Len(f.bytes)

\* Lines 1308-1314: the offset of each resource id in the string table (every
\* id is the file's filename and takes its length plus a terminator).
StringOffsets(fs) ==
    [i \in 1..Len(fs) |-> SumSeq([j \in 1..(i - 1) |-> Len(fs[j].name) + 1])]

\* Index of the first file whose fs::file_size throws, 0 when there is none.
FirstMissing(fs) ==
    LET m == {i \in DOMAIN fs : fs[i].status = "missing"}
    IN  IF m = {} THEN 0 ELSE CHOOSE i \in m : \A j \in m : i <= j

\* Lines 1320-1348: the first n resource-table entries.
ResourceTable(fs, n) ==
    [i \in 1..n |->
        [stringIdOffset |-> StringOffsets(fs)[i],
         resourceType |-> 8,
         dataOffset |-> SumSeq([j \in 1..(i - 1) |-> FileSize(fs[j])]),
         compressedSize |-> FileSize(fs[i]),
         uncompressedSize |-> FileSize(fs[i])]]

RECURSIVE WriteData(_, _)
\* Lines 1367-1373: output << input.rdbuf() for every file whose ifstream
\* opens.  The stream is [fail, data].  operator<<(streambuf*) sets failbit
\* when it inserts no character (an empty file, or a stream that has already
\* failed), and a failed stream writes nothing any more.
WriteData(fs, stream) ==
    IF fs = <<>> THEN stream
    ELSE LET f == Head(fs)
             s == IF f.status # "regular" THEN stream
                  ELSE IF stream.fail \/ f.bytes = <<>> THEN [stream EXCEPT !.fail = TRUE]
                  ELSE [stream EXCEPT !.data = @ \o f.bytes]
         IN  WriteData(Tail(fs), s)

\* No pack file at the output path.
EmptyPackFile ==
    [exists |-> FALSE, resourceCount |-> 0, resourceTableOffset |-> 0,
     stringTableOffset |-> 0, dataOffset |-> 0, totalFileSize |-> 0, table |-> <<>>,
     stringOffsets |-> <<>>, names |-> <<>>, data |-> <<>>, footer |-> FALSE]

ErrCannotCreatePack == <<"Cannot create pack file: ">>
ErrPackCreationFailed == <<"Pack creation failed: ">>

\* buildPack: the Result it returns and the file it leaves at outputPath.
\* The three offsets and the total size of the header are zero until the
\* final seekp/write (lines 1393-1398), which a failed stream does not do.
BuildPack(creatable, fs) ==
    IF ~creatable THEN [result |-> ErrCannotCreatePack, file |-> EmptyPackFile]
    ELSE LET n == Len(fs)
             k == FirstMissing(fs)
         IN  IF k > 0
             THEN [result |-> ErrPackCreationFailed,
                   file |-> [EmptyPackFile EXCEPT !.exists = TRUE, !.resourceCount = n,
                                                  !.table = ResourceTable(fs, k - 1)]]
             ELSE LET stream == WriteData(fs, [fail |-> FALSE, data |-> <<>>])
                      stringsAt == HeaderSize + ResourceEntrySize * n
                      dataAt == stringsAt + 4 + 4 * n
                                  + SumSeq([i \in 1..n |-> Len(fs[i].name) + 1])
                      patched == ~stream.fail
                  IN  [result |-> Ok,
                       file |-> [exists |-> TRUE,
                                 resourceCount |-> n,
                                 resourceTableOffset |-> IF patched THEN HeaderSize ELSE 0,
                                 stringTableOffset |-> IF patched THEN stringsAt ELSE 0,
                                 dataOffset |-> IF patched THEN dataAt ELSE 0,
                                 totalFileSize |-> IF patched
                                                   THEN dataAt + Len(stream.data) + FooterSize
                                                   ELSE 0,
                                 table |-> ResourceTable(fs, n),
                                 stringOffsets |-> StringOffsets(fs),
                                 names |-> [i \in 1..n |-> fs[i].name],
                                 data |-> stream.data,
                                 footer |-> patched]]

\* =================================================================
\* BuildSizeAnalyzer (build_size_analyzer.cpp), the pure part.
MaxAnalyzed == 4
MaxReanalyzed == 4
MaxAnalyzeCalls == 2

\* computeFileHash reads the first HashWindow bytes and, for a file longer
\* than TailThreshold, the last HashWindow bytes.
HashWindow == 1024
TailThreshold == 2048

\* The files of the analysed tree: two files with the same byte, two files
\* of the same size whose bytes give the same hash (1 * 31 + 2 = 0 * 31 + 33),
\* a larger image, and two files the analyzer cannot open.
AnalyzedFiles ==
    {[path |-> "assets/a.png", ext |-> <<".", "p", "n", "g">>, bytes |-> <<7>>, readable |-> TRUE],
     [path |-> "assets/copy/a.png", ext |-> <<".", "p", "n", "g">>, bytes |-> <<7>>, readable |-> TRUE],
     [path |-> "assets/b.png", ext |-> <<".", "p", "n", "g">>, bytes |-> <<1, 2>>, readable |-> TRUE],
     [path |-> "assets/c.png", ext |-> <<".", "p", "n", "g">>, bytes |-> <<0, 33>>, readable |-> TRUE],
     [path |-> "assets/big.png", ext |-> <<".", "p", "n", "g">>, bytes |-> <<9, 9, 9, 9>>, readable |-> TRUE],
     [path |-> "assets/locked.bin", ext |-> <<".", "b", "i", "n">>, bytes |-> <<4>>, readable |-> FALSE],
     [path |-> "assets/locked.ogg", ext |-> <<".", "o", "g", "g">>, bytes |-> <<8, 8, 8, 8, 8>>,
      readable |-> FALSE]}

\* The orders in which a directory iterator can list at most n of the files.
Listings(n) == {q \in SeqsUpTo(AnalyzedFiles, n) : \A i, j \in DOMAIN q : q[i] = q[j] => i = j}

\* The listings of the trees analysed more than once: the two files of one
\* content and the two files that cannot be opened.
ReanalyzedListings(n) ==
    {q \in Listings(n) :
        \A i \in DOMAIN q :
           q[i].path \in {"assets/a.png", "assets/copy/a.png", "assets/locked.bin",
                          "assets/locked.ogg"}}

\* BuildSizeAnalysisConfig: the switches analyze() reads and the two thresholds.
AnalysisConfigs ==
    {[detectDuplicates |-> d, generateSuggestions |-> g,
      largeImageThreshold |-> 1, largeAudioThreshold |-> 2] : d, g \in BOOLEAN}

\* The letters ::tolower changes, and what it changes them to.
UpperLetters ==
    <<"A", "B", "C", "D", "E", "F", "G", "H", "I", "J", "K", "L", "M",
      "N", "O", "P", "Q", "R", "S", "T", "U", "V", "W", "X", "Y", "Z">>
LowerLetters ==
    <<"a", "b", "c", "d", "e", "f", "g", "h", "i", "j", "k", "l", "m",
      "n", "o", "p", "q", "r", "s", "t", "u", "v", "w", "x", "y", "z">>

\* The place of a character among the upper-case letters, 0 for any other.
UpperIndex(c) ==
    IF \E i \in DOMAIN UpperLetters : UpperLetters[i] = c
    THEN CHOOSE i \in DOMAIN UpperLetters : UpperLetters[i] = c
    ELSE 0

\* Mutant: the characters are compared as they are.
ToLower_Unchanged(c) == c

\* ::tolower on a character of the extension, line 931.
ToLower(c) == IF UpperIndex(c) # 0 THEN LowerLetters[UpperIndex(c)] ELSE c

\* The std::string of a sequence of characters.
RECURSIVE Join(_)
Join(q) == IF q = <<>> THEN "" ELSE q[1] \o Join(Tail(q))

\* fs::path::extension, line 930, of a path given by its characters: the
\* file name from its last dot on, empty when the name has no dot, starts with
\* its only dot, or is "." or "..".
Extension(path) ==
    LET slashes == {i \in DOMAIN path : path[i] = "/"}
        start == IF slashes = {} THEN 1
                 ELSE 1 + CHOOSE i \in slashes : \A j \in slashes : j <= i
        name == SubSeq(path, start, Len(path))
        dots == {i \in DOMAIN name : name[i] = "."}
        last == CHOOSE i \in dots : \A j \in dots : j <= i
    IN  IF dots = {} \/ name = <<".", ".">> THEN <<>>
        ELSE IF last = 1 THEN <<>>
        ELSE SubSeq(name, last, Len(name))

\* The extension lists of categorizeAsset, lines 934-963.
ImageExtensions == {".png", ".jpg", ".jpeg", ".bmp", ".gif", ".webp", ".tga"}
AudioExtensions == {".ogg", ".wav", ".mp3", ".flac", ".aac", ".m4a"}
ScriptExtensions == {".nms", ".nmscript", ".lua", ".json"}
FontExtensions == {".ttf", ".otf", ".woff", ".woff2"}
VideoExtensions == {".mp4", ".webm", ".avi", ".mkv"}
DataExtensions == {".xml", ".yaml", ".yml", ".csv", ".dat", ".bin"}

\* categorizeAsset, lines 931-966, on the extension of the path: the
\* characters are lower-cased and the string is looked up list by list.
CategorizeExtension(extension) ==
    LET ext == Join([i \in DOMAIN extension |-> ToLower(extension[i])])
    IN  IF ext \in ImageExtensions THEN "Images"
        ELSE IF ext \in AudioExtensions THEN "Audio"
        ELSE IF ext \in ScriptExtensions THEN "Scripts"
        ELSE IF ext \in FontExtensions THEN "Fonts"
        ELSE IF ext \in VideoExtensions THEN "Video"
        ELSE IF ext \in DataExtensions THEN "Data"
        ELSE "Other"

\* categorizeAsset, lines 929-967.
CategorizeAsset(path) == CategorizeExtension(Extension(path))

\* The upper-case form of a letter, the character itself for any other.
ToUpper(c) ==
    IF \E i \in DOMAIN LowerLetters : LowerLetters[i] = c
    THEN UpperLetters[CHOOSE i \in DOMAIN LowerLetters : LowerLetters[i] = c]
    ELSE c

\* Every spelling of q in upper and lower case.
CaseVariants(q) ==
    {r \in [DOMAIN q -> {q[i] : i \in DOMAIN q} \cup {ToUpper(q[i]) : i \in DOMAIN q}] :
        \A i \in DOMAIN q : r[i] \in {q[i], ToUpper(q[i])}}

\* The paths categorizeAsset is called on: a plain name, a name with two
\* dots, a name in a directory whose name has a dot, and no name at all (the
\* file name starts with the dot), each followed by every spelling of an
\* extension of each list, of extensions of no list, by a lone dot or by
\* nothing; and the directory "..".
CategorizedPaths ==
    LET stems == {<<"a">>, <<"a", ".", "b">>, <<"d", ".", "x", "/", "a">>, <<"d", "/">>}
        endings == {<<".", "p", "n", "g">>, <<".", "o", "g", "g">>, <<".", "l", "u", "a">>,
                    <<".", "t", "t", "f">>, <<".", "m", "k", "v">>, <<".", "b", "i", "n">>,
                    <<".", "p", "n">>, <<".", "x", "y">>, <<".">>, <<>>}
    IN  {stem \o e : stem \in stems, e \in UNION {CaseVariants(ending) : ending \in endings}}
           \cup {<<".", ".">>}

\* std::hex: the hexadecimal digits of n, most significant first.
RECURSIVE Hex(_)
Hex(n) == IF n < 16 THEN <<n>> ELSE Hex(n \div 16) \o <<n % 16>>

\* hash = hash * 31 + byte over the bytes, lines 889-891 and 898-900.  The
\* arithmetic is u64; the files of AnalyzedFiles stay far below the wrap.
RECURSIVE HashBytes(_, _)
HashBytes(hash, bytes) ==
    IF bytes = <<>> THEN hash
    ELSE HashBytes(hash * 31 + Head(bytes), Tail(bytes))

\* computeFileHash, lines 870-910: "" for a file that cannot be opened.
ComputeFileHash(f) ==
    IF ~f.readable THEN <<>>
    ELSE LET size == Len(f.bytes)
             first == SubSeq(f.bytes, 1, IF size < HashWindow THEN size ELSE HashWindow)
             h1 == HashBytes(size, first)
             h2 == IF size > TailThreshold
                   THEN HashBytes(h1, SubSeq(f.bytes, size - HashWindow + 1, size))
                   ELSE h1
         IN  Hex(h2)

\* scanAssets, lines 588-596: the AssetSizeInfo of a listed file, whose
\* extension is f.ext.
ScannedAsset(f) ==
    [path |-> f.path, category |-> CategorizeExtension(f.ext), originalSize |-> Len(f.bytes),
     isOversized |-> FALSE, isDuplicate |-> FALSE, duplicateOf |-> ""]

\* BuildSizeAnalysis{}
DefaultAnalysis ==
    [assets |-> <<>>, duplicates |-> <<>>, unusedAssets |-> <<>>, suggestions |-> <<>>,
     categorySummaries |-> <<>>,
     totalFileCount |-> 0, totalOriginalSize |-> 0, totalWastedSpace |-> 0,
     potentialSavings |-> 0]

\* The first asset with the given path, 0 when there is none (the loops of
\* lines 701-706 and 719-725 stop at the first match).
FirstWithPath(assets, path) ==
    IF \E i \in DOMAIN assets : assets[i].path = path
    THEN CHOOSE i \in DOMAIN assets :
            /\ assets[i].path = path
            /\ \A j \in DOMAIN assets : assets[j].path = path => i <= j
    ELSE 0

\* Mutant: a hash with a single file forms a group, too.
IsDuplicateGroup_Any(files) == Len(files) > 0

\* detectDuplicates, line 695: files.size() > 1.
IsDuplicateGroup(files) == Len(files) > 1

\* detectDuplicates, lines 696-709: the DuplicateGroup of a hash.
GroupOf(assets, hash, files) ==
    LET first == FirstWithPath(assets, files[1])
        single == IF first = 0 THEN 0 ELSE assets[first].originalSize
    IN  [hash |-> hash, paths |-> files, singleFileSize |-> single,
         wastedSpace |-> single * (Len(files) - 1)]

\* detectDuplicates, lines 712-727: the assets with the members after the
\* first flagged.
MarkDuplicates(assets, files) ==
    LET marked == {FirstWithPath(assets, files[k]) : k \in 2..Len(files)}
    IN  [i \in DOMAIN assets |->
            IF i \in marked
            THEN [assets[i] EXCEPT !.isDuplicate = TRUE, !.duplicateOf = files[1]]
            ELSE assets[i]]

\* The sequences that hold every element of S once: the orders in which the
\* iteration of a hash map can visit its entries.
RECURSIVE Orderings(_)
Orderings(S) ==
    IF S = {} THEN {<<>>}
    ELSE UNION {{<<x>> \o q : q \in Orderings(S \ {x})} : x \in S}

RECURSIVE SumOver(_, _)
SumOver(q, field) == IF q = <<>> THEN 0 ELSE Head(q)[field] + SumOver(Tail(q), field)

\* detectDuplicates, lines 693-731, with the hashes visited in the given order.
RECURSIVE DetectDuplicates(_, _, _)
DetectDuplicates(analysis, hashToFiles, order) ==
    IF order = <<>> THEN analysis
    ELSE LET hash == Head(order)
             files == hashToFiles[hash]
             group == GroupOf(analysis.assets, hash, files)
             next == IF IsDuplicateGroup(files)
                     THEN [analysis EXCEPT
                              !.totalWastedSpace = @ + group.wastedSpace,
                              !.assets = MarkDuplicates(@, files),
                              !.duplicates = Append(@, group)]
                     ELSE analysis
         IN  DetectDuplicates(next, hashToFiles, Tail(order))

\* generateSuggestions, lines 745-757.
DuplicateSuggestion(dup) ==
    [type |-> "RemoveDuplicate", priority |-> "High", assetPath |-> dup.paths[2],
     estimatedSavings |-> dup.singleFileSize, canAutoFix |-> TRUE]

\* Mutant: oversized audio assets get no suggestion.
AssetSuggestions_NoAudio(asset) ==
    IF asset.category = "Images" /\ asset.isOversized
    THEN <<[type |-> "CompressImage", priority |-> "Medium", assetPath |-> asset.path,
            estimatedSavings |-> asset.originalSize \div 2, canAutoFix |-> FALSE]>>
    ELSE <<>>

\* generateSuggestions, lines 760-791: the suggestions of one asset.
AssetSuggestions(asset) ==
    (IF asset.category = "Images" /\ asset.isOversized
     THEN <<[type |-> "CompressImage", priority |-> "Medium", assetPath |-> asset.path,
             estimatedSavings |-> asset.originalSize \div 2, canAutoFix |-> FALSE]>>
     ELSE <<>>)
    \o
    (IF asset.category = "Audio" /\ asset.isOversized
     THEN <<[type |-> "CompressAudio", priority |-> "Medium", assetPath |-> asset.path,
             estimatedSavings |-> asset.originalSize \div 3, canAutoFix |-> FALSE]>>
     ELSE <<>>)

\* generateSuggestions, lines 794-810: the suggestion of an unused path.
UnusedSuggestions(assets, path) ==
    LET i == FirstWithPath(assets, path)
    IN  IF i = 0 THEN <<>>
        ELSE <<[type |-> "RemoveUnused", priority |-> "High", assetPath |-> path,
                estimatedSavings |-> assets[i].originalSize, canAutoFix |-> TRUE]>>

RECURSIVE Concat(_)
Concat(qs) == IF qs = <<>> THEN <<>> ELSE Head(qs) \o Concat(Tail(qs))

\* generateSuggestions, lines 745-810: the list before it is sorted.
GeneratedSuggestions(analysis) ==
    [i \in DOMAIN analysis.duplicates |-> DuplicateSuggestion(analysis.duplicates[i])]
    \o Concat([i \in DOMAIN analysis.assets |-> AssetSuggestions(analysis.assets[i])])
    \o Concat([i \in DOMAIN analysis.unusedAssets |->
                  UnusedSuggestions(analysis.assets, analysis.unusedAssets[i])])

\* Mutant: the comparator orders by ascending savings.
SavingsBefore_Ascending(a, b) == a.estimatedSavings < b.estimatedSavings

\* The comparator of std::sort, lines 815-817.
SavingsBefore(a, b) == a.estimatedSavings > b.estimatedSavings

\* x put into a sorted list at every place the comparator allows: x is not
\* before an element left of it and no element right of it is before x.
InsertOutcomes(x, sorted) ==
    {SubSeq(sorted, 1, k) \o <<x>> \o SubSeq(sorted, k + 1, Len(sorted)) :
        k \in {n \in 0..Len(sorted) :
                 /\ \A i \in 1..n : ~SavingsBefore(x, sorted[i])
                 /\ \A i \in (n + 1)..Len(sorted) : ~SavingsBefore(sorted[i], x)}}

\* std::sort, lines 813-818: the order of elements the comparator does not
\* separate is unspecified, so every sorted arrangement is an outcome.
RECURSIVE SortOutcomes(_)
SortOutcomes(q) ==
    IF q = <<>> THEN {<<>>}
    ELSE UNION {InsertOutcomes(Head(q), t) : t \in SortOutcomes(Tail(q))}

\* calculateSummaries, lines 822-830: the CategorySummary of every category
\* that has an asset (the ratios and percentages are not carried).
CategoryTotals(assets) ==
    {[category |-> c,
      fileCount |-> Cardinality({i \in DOMAIN assets : assets[i].category = c}),
      totalOriginalSize |->
          SumOver(SelectSeq(assets, LAMBDA a : a.category = c), "originalSize")] :
        c \in {assets[i].category : i \in DOMAIN assets}}

\* The comparator of std::sort, lines 852-854.
SizeBefore(a, b) == a.totalOriginalSize > b.totalOriginalSize

\* calculateSummaries, lines 833-854: the summaries pushed in the order of
\* the map's iteration and sorted; every arrangement the comparator allows.
SummaryOutcomes(assets) ==
    {q \in Orderings(CategoryTotals(assets)) :
        \A i, j \in DOMAIN q : i < j => ~SizeBefore(q[j], q[i])}

\* std::sort and a freshly constructed map are deterministic: on the input
\* of the call before, a call repeats that call's arrangement; on another
\* input any arrangement the comparator allows can come out.
RepeatOrAny(outcomes, sameInput, prior) ==
    IF sameInput /\ prior \in outcomes THEN {prior} ELSE outcomes

\* applyOptimization, lines 293-298.
ErrOptimizationNotImplemented == <<"Optimization application not yet implemented">>
ErrDuplicateRemovalNotImplemented == <<"Duplicate removal not yet implemented">>
ErrUnusedRemovalNotImplemented == <<"Unused asset removal not yet implemented">>

ApplyOptimizationResult(suggestion) == ErrOptimizationNotImplemented

\* No optimization entry point has been called.
NoOptCall == [call |-> "none", result |-> <<>>]

\* No categorizeAsset call has returned.
NoCategorizeCall == [path |-> <<>>, category |-> "none"]

\* ------------------------------------------------------------- variables
VARIABLES
    \* BuildSystem members
    m_buildInProgress,   \* std::atomic<bool>
    m_cancelRequested,   \* std::atomic<bool>
    m_config,            \* BuildConfig
    m_progress,          \* BuildProgress
    m_lastResult,        \* BuildResult
    m_scriptFiles,       \* files collected by Preflight (sequence of file ids)
    m_assetFiles,
    m_assetMapping,      \* asset ids with a source -> VFS mapping
    m_buildThread,       \* "null", "running" or "finished" (finished, not joined)
    \* the process
    terminated,          \* std::terminate was called
    activeWorkers,       \* threads currently inside runBuildPipeline
    \* worker thread: position and locals of runBuildPipeline and of the stage
    pc,
    success,
    errorMessage,
    loopIndex,           \* compiled / processed / index of the next language
    hasErrors,           \* Compile: some compileScript result has success = false
    langPacksBuilt,
    \* file system
    project,             \* the project tree (constant during a run)
    outExists,           \* the output directory exists
    outDir,              \* entries directly under the output path, other than .staging
    stagingExists,
    staging,             \* names of the entries directly under <output>/.staging
    processed,           \* assets with a processed file under .staging/assets
    packs,               \* pack files under .staging/packs: [name, whole]
    packsIndex,          \* pack names listed by .staging/packs/packs_index.json
    manifest,            \* what .staging/resource_manifest.json holds
    outPacks,            \* pack files under <output>/packs put there by a promotion
    \* observations (history of calls and callbacks)
    startTick,           \* flips at every startBuild call
    startArg,            \* config of the last startBuild call
    startResult,         \* what the last startBuild call returned
    preOut,              \* outDir when the running build was started
    preStaging,          \* the staging tree when the running build was started
    cancelPc,            \* worker position when cancelBuild first set the flag
    buildsStarted,       \* startBuild calls that returned ok
    fsFault,             \* a file-system call of the running build failed or threw
    thrown,              \* exceptions thrown in the running build: "fatal", "warning"
    begun,               \* step indexes for which beginStep ran, in order
    stageError,          \* error returned by the stage that failed
    packErrors,          \* the buildPack calls that returned an error: [name, fault]
    cleanupRan,
    staged,              \* staging entries when promotion was entered
    verified,            \* the sizes signAndFinalize measured, until the callback is due
    reports,             \* progress values handed to onProgressUpdate
    completions,         \* what onBuildComplete saw, one record per call
    \* a buildPack call taken by itself
    packFiles,           \* the argument files
    packCreatable,       \* the ofstream on outputPath opens
    packResult,          \* the Result returned, <<>> before the call
    packFile,            \* the file at outputPath
    \* BuildSizeAnalyzer
    listing,             \* the files of the tree, in the order the iterator lists them
    m_analyzerConfig,    \* BuildSizeAnalyzer::m_config
    m_analysis,          \* BuildSizeAnalysis
    m_hashToFiles,       \* hash -> paths, in the order analyzeAsset saw them
    analyzePc,           \* position of analyze()
    analyzeIndex,        \* the i of the loop of lines 228-234
    generated,           \* the suggestions list of the latest std::sort, before it
    categorized,         \* the latest categorizeAsset call: its path and its result
    previous,            \* the analysis the analyze() call before this one returned
    analyzeCalls,        \* analyze() calls made
    optResult            \* the last optimization entry point called and its Result

memberVars == <<m_buildInProgress, m_cancelRequested, m_config, m_progress, m_lastResult,
                m_scriptFiles, m_assetFiles, m_assetMapping, m_buildThread>>
workerVars == <<pc, success, errorMessage, loopIndex, hasErrors, langPacksBuilt>>
stgFiles == <<processed, packs, packsIndex, manifest>>
fsVars == <<project, outExists, outDir, outPacks, stagingExists, staging, stgFiles>>
callVars == <<startTick, startArg, startResult>>
histVars == <<preOut, preStaging, cancelPc, buildsStarted, fsFault, thrown, begun,
              stageError, packErrors, cleanupRan,
              staged, verified, reports, completions>>
packVars == <<packFiles, packCreatable, packResult, packFile>>
analyzeVars == <<listing, m_analyzerConfig, m_analysis, m_hashToFiles, analyzePc, analyzeIndex,
                 generated, previous, analyzeCalls, optResult, categorized>>
buildVars == <<memberVars, terminated, activeWorkers, workerVars, fsVars, callVars, histVars>>
vars == <<buildVars, packVars, analyzeVars>>

\* --------------------------------------------------------- output trees
\* An entry of the output directory: its name and whether this build wrote
\* it ("new") or it was there before ("old").
OldEntry(n) == <<n, "old">>
NewEntry(n) == <<n, "new">>

\* What can lie under the output path before the first build.
InitialOutputs ==
    { [exists |-> FALSE, entries |-> {}, stale |-> FALSE],
      [exists |-> TRUE, entries |-> {OldEntry("userfile")}, stale |-> FALSE],
      [exists |-> TRUE, entries |-> {OldEntry("userfile"), OldEntry("packs")}, stale |-> TRUE] }

\* The state after BuildSystem's construction, over the given project trees
\* and output directories.
InitOver(projects, outputs) ==
    /\ m_buildInProgress = FALSE
    /\ m_cancelRequested = FALSE
    /\ m_config = DefaultConfig
    /\ m_progress = DefaultProgress
    /\ m_lastResult = DefaultResult
    /\ m_scriptFiles = <<>>
    /\ m_assetFiles = <<>>
    /\ m_assetMapping = {}
    /\ m_buildThread = "null"
    /\ terminated = FALSE
    /\ activeWorkers = 0
    /\ pc = "idle"
    /\ success = TRUE
    /\ errorMessage = <<>>
    /\ loopIndex = 0
    /\ hasErrors = FALSE
    /\ langPacksBuilt = 0
    /\ project \in projects
    /\ \E o \in outputs :
          /\ outExists = o.exists
          /\ outDir = o.entries
          /\ stagingExists = o.stale
          /\ staging = IF o.stale THEN {"stale"} ELSE {}
    /\ processed = {}
    /\ packs = {}
    /\ packsIndex = <<>>
    /\ manifest = NoManifest
    /\ outPacks = {}
    /\ packErrors = {}
    /\ startTick = FALSE
    /\ startArg = DefaultConfig
    /\ startResult = <<>>
    /\ preOut = {}
    /\ preStaging = [exists |-> FALSE, entries |-> {}]
    /\ cancelPc = "none"
    /\ buildsStarted = 0
    /\ fsFault = FALSE
    /\ thrown = {}
    /\ begun = <<>>
    /\ stageError = <<>>
    /\ cleanupRan = FALSE
    /\ staged = {}
    /\ verified = NoSizes
    /\ reports = <<>>
    /\ completions = <<>>

\* No buildPack call is being looked at by itself.
\* A BuildSizeAnalyzer on which analyze() is not called.
NoAnalysis ==
    /\ listing = <<>>
    /\ m_analyzerConfig = [detectDuplicates |-> TRUE, generateSuggestions |-> TRUE,
                           largeImageThreshold |-> 1, largeAudioThreshold |-> 2]
    /\ m_analysis = DefaultAnalysis
    /\ m_hashToFiles = <<>>
    /\ analyzePc = "idle"
    /\ analyzeIndex = 0
    /\ generated = <<>>
    /\ previous = DefaultAnalysis
    /\ analyzeCalls = 0
    /\ optResult = NoOptCall
    /\ categorized = NoCategorizeCall

NoPackCall ==
    /\ packFiles = <<>>
    /\ packCreatable = TRUE
    /\ packResult = <<>>
    /\ packFile = EmptyPackFile

Init == InitOver(Projects, InitialOutputs) /\ NoPackCall /\ NoAnalysis

\* One complete project (a script, an asset) and one populated output directory.
InitApi ==
    /\ InitOver({p \in Projects : p.json /\ p.scriptsDir /\ p.scripts = 1 /\ p.assets = 1},
                {o \in InitialOutputs : o.stale})
    /\ NoPackCall
    /\ NoAnalysis

\* ------------------------------------------------------- caller thread
\* Mutant: startBuild does not test m_buildInProgress.
AlreadyInProgress_Off == FALSE

\* startBuild, line 179: the guard against a second concurrent build.
AlreadyInProgress == m_buildInProgress

\* startBuild, lines 179-195: the error the configuration checks return, or Ok.
ConfigCheck(config) ==
    IF AlreadyInProgress THEN ErrAlreadyInProgress
    ELSE IF config.projectPath = "" THEN ErrProjectRequired
    ELSE IF config.outputPath = "" THEN ErrOutputRequired
    ELSE IF ~ProjectExists(config.projectPath) THEN ErrProjectMissing(config.projectPath)
    ELSE Ok

\* startBuild, lines 202-212: the reset progress with the six steps installed.
StartedProgress == [DefaultProgress EXCEPT !.isRunning = TRUE, !.steps = InitialSteps]

\* startBuild(config).  Line 215 assigns a new std::thread to m_buildThread:
\* the new thread is constructed first, then the old thread object is
\* destroyed; destroying a std::thread that is still joinable (the previous
\* worker returned but was never joined) calls std::terminate.
StartBuild(config) ==
    /\ ~terminated
    /\ startTick' = ~startTick
    /\ startArg' = config
    /\ UNCHANGED <<packVars, analyzeVars>>
    /\ LET r == ConfigCheck(config) IN
       IF r # Ok
       THEN /\ startResult' = r
            /\ UNCHANGED <<memberVars, terminated, activeWorkers, workerVars, fsVars, histVars>>
       ELSE /\ m_config' = config
            /\ m_buildInProgress' = TRUE
            /\ m_cancelRequested' = FALSE
            /\ m_progress' = StartedProgress
            /\ activeWorkers' = activeWorkers + 1
            /\ IF m_buildThread = "null"
               THEN /\ m_buildThread' = "running"
                    /\ terminated' = FALSE
                    /\ startResult' = Ok
                    /\ buildsStarted' = buildsStarted + 1
                    /\ pc' = "prepare_staging"
               ELSE /\ m_buildThread' = m_buildThread
                    /\ terminated' = TRUE
                    /\ startResult' = <<"std::terminate">>
                    /\ buildsStarted' = buildsStarted
                    /\ pc' = pc
            /\ success' = TRUE
            /\ errorMessage' = <<>>
            /\ loopIndex' = 0
            /\ hasErrors' = FALSE
            /\ langPacksBuilt' = 0
            /\ preOut' = outDir
            /\ preStaging' = [exists |-> stagingExists, entries |-> staging]
            /\ cancelPc' = "none"
            /\ fsFault' = FALSE
            /\ thrown' = {}
            /\ begun' = <<>>
            /\ stageError' = <<>>
            /\ packErrors' = {}
            /\ cleanupRan' = FALSE
            /\ staged' = {}
            /\ verified' = NoSizes
            /\ reports' = <<>>
            /\ UNCHANGED <<m_lastResult, m_scriptFiles, m_assetFiles, m_assetMapping,
                           fsVars, completions>>

MsgCancelRequested == <<"Build cancellation requested...">>

\* push_back on m_progress.infoMessages from the caller thread (line 223 by
\* way of line 1029) while the worker thread uses m_progress without a lock:
\* the vector holds the message afterwards, or the push is lost to a
\* concurrent write of the worker.
RacedPush(messages, message) ==
    {messages \cup {message}, messages}

\* cancelBuild(), lines 220-225.
CancelBuild ==
    /\ ~terminated
    /\ IF m_buildInProgress
       THEN /\ m_cancelRequested' = TRUE
            /\ cancelPc' = IF m_cancelRequested THEN cancelPc ELSE pc
            /\ \E messages \in RacedPush(m_progress.infoMessages, MsgCancelRequested) :
                  m_progress' = [m_progress EXCEPT !.infoMessages = messages]
       ELSE UNCHANGED <<m_cancelRequested, cancelPc, m_progress>>
    /\ UNCHANGED <<m_buildInProgress, m_config, m_lastResult, m_scriptFiles,
                   m_assetFiles, m_assetMapping, m_buildThread, terminated, activeWorkers,
                   workerVars, fsVars, callVars, preOut, preStaging, buildsStarted, fsFault,
                   thrown, begun,
                   stageError, packErrors, cleanupRan, staged, verified, reports,
                   completions, packVars,
                   analyzeVars>>

\* ------------------------------------------- progress reporting helpers
\* The helpers work on a pair [p |-> BuildProgress, r |-> values reported so
\* far], so that one worker step can chain several of them.

\* Mutant: updateProgress leaves out the weights of the completed steps.
OverallProgress_CurrentOnly(steps, index, num, den) ==
    steps[index + 1].progressWeight * num * (ProgressDen \div den)

\* updateProgress, lines 1009-1015: weights of the steps before the current
\* one plus the current step's weight times stepProgress (= num/den).
OverallProgress(steps, index, num, den) ==
    SumSeq([i \in 1..index |-> steps[i].progressWeight]) * ProgressDen
        + steps[index + 1].progressWeight * num * (ProgressDen \div den)

\* updateProgress(stepProgress, task), lines 1004-1023.
UpdateProgress(st, num, den) ==
    LET p == IF st.p.currentStepIndex >= 0 /\ st.p.currentStepIndex < Len(st.p.steps)
             THEN [st.p EXCEPT !.progress =
                      OverallProgress(st.p.steps, st.p.currentStepIndex, num, den)]
             ELSE st.p
    IN  [p |-> p, r |-> Append(st.r, p.progress)]

\* beginStep(name, description), lines 1037-1051.
\* logMessage, lines 1025-1035, with isError = false: the message is pushed
\* to m_progress.infoMessages.
LogMessage(st, message) ==
    [p |-> [st.p EXCEPT !.infoMessages = @ \cup {message}], r |-> st.r]

BeginStep(st, name, description) ==
    LET found == {i \in DOMAIN st.p.steps : st.p.steps[i].name = name}
        p == IF found = {} THEN st.p
             ELSE LET i == CHOOSE j \in found : \A k \in found : j <= k
                  IN  [st.p EXCEPT !.currentStepIndex = i - 1,
                                   !.steps[i].description = description]
    IN  UpdateProgress(LogMessage([p |-> p, r |-> st.r], <<"Starting: ", name>>), 0, 1)

\* endStep(success, errorMessage), lines 1053-1069.
EndStep(st, ok, message) ==
    LET i == st.p.currentStepIndex + 1
        p == IF i >= 1 /\ i <= Len(st.p.steps)
             THEN [st.p EXCEPT !.steps[i].completed = TRUE,
                               !.steps[i].success = ok,
                               !.steps[i].errorMessage = message]
             ELSE st.p
    IN  [p |-> p, r |-> st.r]

Now == [p |-> m_progress, r |-> reports]

\* ------------------------------------------------------- worker thread
\* Variables no worker step writes.
callerOwned == <<m_cancelRequested, m_config, terminated, project, callVars, preOut, preStaging,
                 cancelPc, buildsStarted, packVars, analyzeVars>>
filesVars == <<m_scriptFiles, m_assetFiles, m_assetMapping>>
loopVars == <<loopIndex, hasErrors, langPacksBuilt>>
outVars == <<outExists, outDir, outPacks>>
stgVars == <<stagingExists, staging, stgFiles>>

\* The staging tree holds no processed asset, no pack and no pack index.
NoStagedFiles ==
    /\ processed' = {}
    /\ packs' = {}
    /\ packsIndex' = <<>>
    /\ manifest' = NoManifest
endVars == <<m_lastResult, completions, m_buildInProgress, m_buildThread, activeWorkers,
             cleanupRan, staged, verified>>

Running == ~terminated /\ m_buildThread = "running"

faultVars == <<fsFault, thrown>>

\* A fault that is an exception is "fatal" when it fails the stage or reaches
\* the catch clause of runBuildPipeline, a "warning" when the code that caught
\* it (an asset processor, lines 1183-1186) only records a warning; a stream
\* that does not open throws nothing.
FaultKind(fault) ==
    IF fault \in {"remove_all", "create_directories", "scan", "throw", "file_size"}
    THEN {"fatal"}
    ELSE IF fault = "copy" THEN {"warning"}
    ELSE {}

\* The environment's choice for a file-system call: "none" is no fault.
Fault(fault) ==
    /\ fsFault' = (fsFault \/ fault # "none")
    /\ thrown' = thrown \cup FaultKind(fault)

\* In the language-pack loop the exception of a buildPack call ends as a warning.
FaultAsWarning(fault) ==
    /\ fsFault' = (fsFault \/ fault # "none")
    /\ thrown' = thrown \cup (IF fault = "file_size" THEN {"warning"} ELSE {})

\* runBuildPipeline, lines 408-411: the catch clause around the stages.
\* Mutant: the catch clause leaves m_lastResult.success set.
CaughtSuccess_Kept == TRUE

\* runBuildPipeline, line 409: the catch clause records the failure.
CaughtSuccess == FALSE

\* runBuildPipeline, lines 408-411: catch (const std::exception&).
CatchException ==
    /\ success' = CaughtSuccess
    /\ errorMessage' = ErrException
    /\ pc' = "cleanup"
    /\ UNCHANGED stageError

\* runBuildPipeline, lines 329-333 (and the same after every stage): the
\* stage's Result is tested and success / errorMessage are set from it.
StageReturns(result, next) ==
    /\ pc' = next
    /\ IF result = Ok
       THEN UNCHANGED <<success, errorMessage, stageError>>
       ELSE /\ success' = FALSE
            /\ errorMessage' = result
            /\ stageError' = result

\* runBuildPipeline, lines 317-325: remove a stale staging tree, create a
\* fresh one (creating the output directory with it).
PrepareStaging ==
    /\ Running /\ pc = "prepare_staging"
    /\ \E fault \in {"none", "remove_all", "create_directories"} :
          /\ (fault = "remove_all") => stagingExists
          /\ Fault(fault)
          /\ IF fault = "none"
             THEN /\ outExists' = TRUE
                  /\ stagingExists' = TRUE
                  /\ staging' = {}
                  /\ NoStagedFiles
                  /\ pc' = "gate_preflight"
                  /\ UNCHANGED <<success, errorMessage, stageError>>
             ELSE /\ stagingExists' = (fault = "remove_all")
                  /\ staging' = IF fault = "remove_all" THEN staging ELSE {}
                  /\ IF fault = "remove_all" THEN UNCHANGED stgFiles ELSE NoStagedFiles
                  /\ outExists' = outExists
                  /\ CatchException
    /\ UNCHANGED <<callerOwned, packErrors, m_progress, reports, filesVars, loopVars, outDir, outPacks, begun,
                   endVars>>

\* The guards between the stages.
GatePcs ==
    <<"gate_preflight", "gate_compile", "gate_index", "gate_pack", "gate_bundle",
      "gate_verify", "gate_promote">>
GateTargets ==
    <<"preflight_begin", "compile_begin", "index_begin", "pack_begin", "bundle_begin",
      "verify_begin", "promote_clear">>
GateSkips ==
    <<"gate_compile", "gate_index", "gate_pack", "gate_bundle", "gate_verify",
      "gate_promote", "cleanup">>

\* Mutant: the guards test success but not the cancel flag.
MayRunStage_IgnoresCancel(k) == k = 1 \/ success

\* Mutant: the guards test the cancel flag but not success.
MayRunStage_IgnoresFailure(k) == ~m_cancelRequested

\* runBuildPipeline, lines 328, 337, 346, 355, 364, 373, 382: a stage (and the
\* promotion) runs when all before it succeeded and no cancel is requested.
\* Line 328 tests the cancel flag alone.
MayRunStage(k) == (k = 1 \/ success) /\ ~m_cancelRequested

StageGate ==
    /\ Running
    /\ \E k \in DOMAIN GatePcs :
          /\ pc = GatePcs[k]
          /\ IF MayRunStage(k)
             THEN /\ pc' = GateTargets[k]
                  /\ staged' = IF k = 7 THEN staging ELSE staged
             ELSE /\ pc' = GateSkips[k]
                  /\ staged' = staged
    /\ UNCHANGED <<callerOwned, packErrors, faultVars, m_progress, reports, filesVars, loopVars, outVars, stgVars,
                   begun, success, errorMessage, stageError, m_lastResult, completions,
                   m_buildInProgress, m_buildThread, activeWorkers, cleanupRan, verified>>

\* ------------------------------------------------------ Stage 0: Preflight
\* validateProject(projectPath), lines 227-253: the list of validation errors.
ValidateProject(path) ==
    IF ~ProjectExists(path) THEN <<"Project directory does not exist: ", path>>
    ELSE (IF project.json THEN <<>> ELSE <<"Missing project.json in project directory">>)
         \o (IF project.scriptsDir THEN <<>> ELSE <<"Missing required directory: scripts">>)
         \o (IF project.assetsDir THEN <<>> ELSE <<"Missing required directory: assets">>)

\* prepareOutputDirectory, lines 455-458.
PreflightBegin ==
    /\ Running /\ pc = "preflight_begin"
    /\ LET st == UpdateProgress(
                    BeginStep(Now, "Preflight", "Validating project and preparing output"),
                    1, 10)
       IN  /\ m_progress' = st.p
           /\ reports' = st.r
    /\ begun' = Append(begun, 0)
    /\ pc' = "preflight_body"
    /\ UNCHANGED <<callerOwned, packErrors, faultVars, filesVars, loopVars, outVars, stgVars, success, errorMessage,
                   stageError, endVars>>

\* prepareOutputDirectory, lines 459-528.  The directory creation is guarded
\* by a try block of the stage; the two recursive scans are not, so a throw of
\* theirs reaches the catch clause of runBuildPipeline.
PreflightBody ==
    /\ Running /\ pc = "preflight_body"
    /\ LET errors == ValidateProject(m_config.projectPath) IN
       IF errors # <<>>
       THEN LET listed == [Now EXCEPT !.p.errors =
                              @ \cup {<<0, errors[i]>> : i \in DOMAIN errors}]
                st == EndStep(listed, FALSE, <<"Project validation failed">>)
            IN
            /\ m_progress' = st.p
            /\ reports' = st.r
            /\ StageReturns(<<"Project validation failed:">> \o errors, "gate_compile")
            /\ UNCHANGED <<filesVars, stgVars, faultVars>>
       ELSE \E fault \in {"none", "create_directories", "scan"} :
            LET st1 == UpdateProgress(Now, 5, 10)
                st2 == UpdateProgress(st1, 7, 10)
                st3 == UpdateProgress(st2, 9, 10)
            IN  Fault(fault) /\
                IF fault = "create_directories"
                THEN LET st == EndStep(st1, FALSE, <<"filesystem error">>) IN
                     /\ m_progress' = st.p
                     /\ reports' = st.r
                     /\ StageReturns(<<"Failed to create directories: ">>, "gate_compile")
                     /\ UNCHANGED <<filesVars, stgVars>>
                ELSE /\ staging' = staging \cup {"packs", "config", "logs", "saves"}
                     /\ stagingExists' = TRUE
                     /\ UNCHANGED stgFiles
                     /\ IF fault = "scan"
                        THEN /\ m_progress' = st2.p
                             /\ reports' = st2.r
                             /\ m_scriptFiles' = <<>>
                             /\ UNCHANGED <<m_assetFiles, m_assetMapping>>
                             /\ CatchException
                        ELSE LET st == EndStep(LogMessage(st3, <<"Found script and asset files">>), TRUE, <<>>) IN
                             /\ m_progress' = st.p
                             /\ reports' = st.r
                             /\ m_scriptFiles' = [i \in 1..project.scripts |-> i]
                             /\ m_assetFiles' = [i \in 1..project.assets |-> i]
                             /\ UNCHANGED m_assetMapping
                             /\ StageReturns(Ok, "gate_compile")
    /\ UNCHANGED <<callerOwned, packErrors, loopVars, outVars, begun, endVars>>

\* ------------------------------------------------------- Stage 1: Compile
\* The text of a script file, as the sequence of its characters: script 1 is
\* balanced, script 2 leaves a brace open, script 3 is empty, script 4 closes
\* a parenthesis it never opened.
ScriptSource(s) ==
    IF s = 2 THEN <<"f", "(", ")", "{">>
    ELSE IF s = 3 THEN <<>>
    ELSE IF s = 4 THEN <<"{", ")", "}">>
    ELSE <<"{", "f", "(", ")", "}">>

\* compileScript, lines 1097-1108: the counter of a pair of characters at the
\* end of the source.
BalanceCount(source, open, close) ==
    Cardinality({i \in DOMAIN source : source[i] = open})
        - Cardinality({i \in DOMAIN source : source[i] = close})

WarnEmpty == "Script file is empty"
WarnBraces == "Unbalanced braces detected"
WarnParens == "Unbalanced parentheses detected"
ErrCannotOpen == "Cannot open file: "

\* Mutant: an unbalanced script fails to compile.
CompileScript_Strict(s, opened) ==
    LET source == ScriptSource(s) IN
    IF ~opened
    THEN [success |-> FALSE, errors |-> {ErrCannotOpen}, warnings |-> {}]
    ELSE IF BalanceCount(source, "{", "}") # 0 \/ BalanceCount(source, "(", ")") # 0
    THEN [success |-> FALSE, errors |-> {WarnBraces, WarnParens}, warnings |-> {}]
    ELSE [success |-> TRUE, errors |-> {},
          warnings |-> IF source = <<>> THEN {WarnEmpty} ELSE {}]

\* compileScript, lines 1071-1125: the result for script s, whose file opens
\* or does not.
CompileScript(s, opened) ==
    LET source == ScriptSource(s) IN
    IF ~opened
    THEN [success |-> FALSE, errors |-> {ErrCannotOpen}, warnings |-> {}]
    ELSE [success |-> TRUE, errors |-> {},
          warnings |-> (IF source = <<>> THEN {WarnEmpty} ELSE {})
                       \cup (IF BalanceCount(source, "{", "}") # 0 THEN {WarnBraces} ELSE {})
                       \cup (IF BalanceCount(source, "(", ")") # 0 THEN {WarnParens} ELSE {})]

\* compileScripts, lines 559-570: the errors of a failed result and the
\* warnings of any result are appended to m_progress, prefixed by the path,
\* and the script is counted as processed.
WithCompileResult(p, s, result) ==
    [p EXCEPT !.errors = @ \cup (IF result.success THEN {}
                                 ELSE {<<s, e>> : e \in result.errors}),
              !.warnings = @ \cup {<<s, w>> : w \in result.warnings},
              !.filesProcessed = @ + 1]

\* compileScripts, lines 531-544.
CompileBegin ==
    /\ Running /\ pc = "compile_begin"
    /\ begun' = Append(begun, 1)
    /\ LET st0 == BeginStep(Now, "Compile", "Compiling NMScript files") IN
       IF m_scriptFiles = <<>>
       THEN LET st == EndStep(LogMessage(st0, <<"No script files to compile">>), TRUE, <<>>) IN
            /\ m_progress' = st.p
            /\ reports' = st.r
            /\ StageReturns(Ok, "gate_index")
            /\ UNCHANGED <<stgVars, loopVars, faultVars>>
       ELSE /\ m_progress' = st0.p
            /\ reports' = st0.r
            /\ \E fault \in {"none", "create_directories"} :
                  Fault(fault) /\
                  IF fault = "none"
                  THEN /\ staging' = staging \cup {"compiled"}
                       /\ stagingExists' = TRUE
                       /\ UNCHANGED stgFiles
                       /\ loopIndex' = 0
                       /\ hasErrors' = FALSE
                       /\ UNCHANGED <<langPacksBuilt, success, errorMessage, stageError>>
                       /\ pc' = "compile_loop"
                  ELSE /\ CatchException
                       /\ UNCHANGED <<stgVars, loopVars>>
    /\ UNCHANGED <<callerOwned, packErrors, filesVars, outVars, endVars>>

\* compileScripts, lines 546-571: one iteration of the per-script loop.
CompileLoop ==
    /\ Running /\ pc = "compile_loop"
    /\ IF m_cancelRequested
       THEN LET st == EndStep(Now, FALSE, <<"Cancelled">>) IN
            /\ m_progress' = st.p
            /\ reports' = st.r
            /\ StageReturns(ErrCancelled, "gate_index")
            /\ UNCHANGED loopVars
       ELSE LET st == UpdateProgress(Now, loopIndex, Len(m_scriptFiles)) IN
            /\ reports' = st.r
            /\ \E opened \in BOOLEAN :
                  LET s == m_scriptFiles[loopIndex + 1]
                      result == CompileScript(s, opened)
                  IN  /\ m_progress' = WithCompileResult(st.p, s, result)
                      /\ hasErrors' = (hasErrors \/ ~result.success)
            /\ loopIndex' = loopIndex + 1
            /\ pc' = IF loopIndex + 1 < Len(m_scriptFiles) THEN "compile_loop"
                     ELSE "compile_finish"
            /\ UNCHANGED <<langPacksBuilt, success, errorMessage, stageError>>
    /\ UNCHANGED <<callerOwned, packErrors, faultVars, filesVars, outVars, stgVars, begun, endVars>>

\* compileScripts, line 584.
ErrScriptsFailed == <<"One or more scripts failed to compile">>

\* compileScripts, line 587: the bytecode container, in <staging>/compiled.
BytecodeFile == "compiled_scripts.bin"

\* compileScripts, lines 573-597, with compileBytecode (lines 1127-1167).
CompileFinish ==
    /\ Running /\ pc = "compile_finish"
    /\ \E bytecodeWritten \in BOOLEAN :
          LET result == IF hasErrors THEN ErrScriptsFailed
                        ELSE IF ~bytecodeWritten THEN <<"Cannot create bytecode file: ">>
                        ELSE Ok
              message == IF hasErrors THEN <<"Script compilation failed">>
                         ELSE IF ~bytecodeWritten THEN result
                         ELSE <<>>
              st == EndStep(IF result = Ok
                         THEN LogMessage(Now, <<"Compiled scripts successfully">>)
                         ELSE Now, result = Ok, message)
          IN  /\ (hasErrors => bytecodeWritten)
              /\ m_progress' = st.p
              /\ reports' = st.r
              /\ staging' = IF result = Ok THEN staging \cup {BytecodeFile} ELSE staging
              /\ StageReturns(result, "gate_index")
    /\ UNCHANGED <<callerOwned, packErrors, faultVars, filesVars, loopVars, outVars,
                   stagingExists, stgFiles, begun, endVars>>

\* --------------------------------------------------------- Stage 2: Index
\* processAssets, lines 600-613.
IndexBegin ==
    /\ Running /\ pc = "index_begin"
    /\ begun' = Append(begun, 2)
    /\ LET st0 == BeginStep(Now, "Index", "Processing and indexing assets") IN
       IF m_assetFiles = <<>>
       THEN LET st == EndStep(LogMessage(st0, <<"No assets to process">>), TRUE, <<>>) IN
            /\ m_progress' = st.p
            /\ reports' = st.r
            /\ StageReturns(Ok, "gate_pack")
            /\ UNCHANGED <<stgVars, loopVars, m_assetMapping, faultVars>>
       ELSE /\ m_progress' = st0.p
            /\ reports' = st0.r
            /\ \E fault \in {"none", "create_directories"} :
                  Fault(fault) /\
                  IF fault = "none"
                  THEN /\ staging' = staging \cup {"assets"}
                       /\ stagingExists' = TRUE
                       /\ UNCHANGED stgFiles
                       /\ loopIndex' = 0
                       /\ m_assetMapping' = {}
                       /\ UNCHANGED <<hasErrors, langPacksBuilt, success, errorMessage,
                                      stageError>>
                       /\ pc' = "index_loop"
                  ELSE /\ CatchException
                       /\ UNCHANGED <<stgVars, loopVars, m_assetMapping>>
    /\ UNCHANGED <<callerOwned, packErrors, m_scriptFiles, m_assetFiles, outVars, endVars>>

\* The VFS path of an asset (its path relative to <project>/assets), as the
\* sequence of its components: asset 2 lies in the directory of the first
\* language, asset 3 below another directory in that of the second, asset 4
\* in a directory of the second language inside that of the first.
AssetVfsPath(a) ==
    IF a = 2 THEN <<"en", "voice.ogg">>
    ELSE IF a = 3 THEN <<"audio", "ru", "line.ogg">>
    ELSE IF a = 4 THEN <<"en", "ru", "dub.ogg">>
    ELSE <<"images", "bg.png">>

\* processAssets, line 649.
WarnAssetProcessing == "Asset processing warning: "

\* processAssets, lines 648-659: the warning of a failed processor call, and
\* the asset counted as processed.
WithAssetResult(p, asset, processorSucceeded) ==
    [p EXCEPT !.warnings = IF processorSucceeded THEN @
                           ELSE @ \cup {<<asset, WarnAssetProcessing>>},
              !.filesProcessed = @ + 1]

\* Mutant: a failed asset gets no source -> VFS mapping.
MappingAfter_SkipFailed(mapping, asset, processorSucceeded) ==
    IF processorSucceeded THEN mapping \cup {asset} ELSE mapping

\* processAssets, lines 653-656: m_assetMapping[assetPath] = vfsPath, whatever
\* the processor returned.
MappingAfter(mapping, asset, processorSucceeded) == mapping \cup {asset}

\* processAssets, lines 663-684: the manifest written from m_assetMapping,
\* one {"source", "vfs_path"} object per mapping.
ManifestOf(mapping) ==
    [written |-> TRUE, resource_count |-> Cardinality(mapping),
     resources |-> {<<a, AssetVfsPath(a)>> : a \in mapping}]

\* processAssets, lines 615-661: one iteration of the per-asset loop.  A
\* failed copy (processImage .. processData, lines 1169-1255) is a warning and
\* leaves no processed file; fs::relative and create_directories can throw.
IndexLoop ==
    /\ Running /\ pc = "index_loop"
    /\ IF m_cancelRequested
       THEN LET st == EndStep(Now, FALSE, <<"Cancelled">>) IN
            /\ m_progress' = st.p
            /\ reports' = st.r
            /\ StageReturns(ErrCancelled, "gate_pack")
            /\ UNCHANGED <<loopVars, m_assetMapping, faultVars, processed>>
       ELSE LET st == UpdateProgress(Now, loopIndex, Len(m_assetFiles))
                asset == m_assetFiles[loopIndex + 1]
            IN
            /\ reports' = st.r
            /\ \E fault \in {"none", "throw", "copy"} :
                  Fault(fault) /\
                  IF fault = "throw"
                  THEN /\ m_progress' = st.p
                       /\ CatchException
                       /\ UNCHANGED <<loopVars, m_assetMapping, processed>>
                  ELSE /\ m_progress' = WithAssetResult(st.p, asset, fault # "copy")
                       /\ m_assetMapping' = MappingAfter(m_assetMapping, asset, fault # "copy")
                       /\ processed' = IF fault = "copy" THEN processed
                                       ELSE processed \cup {asset}
                       /\ loopIndex' = loopIndex + 1
                       /\ pc' = IF loopIndex + 1 < Len(m_assetFiles) THEN "index_loop"
                                ELSE "index_finish"
                       /\ UNCHANGED <<hasErrors, langPacksBuilt, success, errorMessage,
                                      stageError>>
    /\ UNCHANGED <<callerOwned, packErrors, m_scriptFiles, m_assetFiles, outVars, stagingExists,
                   staging, packs, packsIndex, manifest, begun, endVars>>

\* processAssets, lines 663-689: the manifest is written when its stream opens.
IndexFinish ==
    /\ Running /\ pc = "index_finish"
    /\ \E manifestOpened \in BOOLEAN :
          /\ staging' = IF manifestOpened THEN staging \cup {"resource_manifest.json"}
                        ELSE staging
          /\ manifest' = IF manifestOpened THEN ManifestOf(m_assetMapping) ELSE manifest
    /\ LET st == EndStep(LogMessage(Now, <<"Processed assets">>), TRUE, <<>>) IN
       /\ m_progress' = st.p
       /\ reports' = st.r
    /\ StageReturns(Ok, "gate_pack")
    /\ UNCHANGED <<callerOwned, packErrors, faultVars, filesVars, loopVars, outVars, stagingExists,
                   processed, packs, packsIndex, begun, endVars>>

\* ---------------------------------------------------------- Stage 3: Pack
\* m_config.includedLanguages[l - 1].
LangName(l) == IF l = 1 THEN "en" ELSE IF l = 2 THEN "ru" ELSE "de"

\* Mutant: only the second test, vfsPath starts with "<lang>/".
IsLocaleSpecific_PrefixOnly(path, lang) == Len(path) > 1 /\ path[1] = lang

\* Lines 713-714 and 753-754: vfsPath contains "/<lang>/" or starts with
\* "<lang>/", that is, one of its directory components is the language.
IsLocaleSpecific(path, lang) == \E i \in 1..(Len(path) - 1) : path[i] = lang

\* Lines 708-728: the processed files of the assets that match no language.
BaseFiles ==
    {a \in m_assetMapping :
        /\ ~\E l \in 1..m_config.languages : IsLocaleSpecific(AssetVfsPath(a), LangName(l))
        /\ a \in processed}

\* Lines 751-762: the processed files of the assets that match language l.
LangFiles(l) ==
    {a \in m_assetMapping :
        IsLocaleSpecific(AssetVfsPath(a), LangName(l)) /\ a \in processed}

\* Mutant: a language pack is built for a language without files, too.
LangPackWanted_Always(langFiles) == TRUE

\* Line 764: if (!langFiles.empty()).
LangPackWanted(langFiles) == langFiles # {}

\* The outcomes of a buildPack call on the given files (see BuildPack): the
\* pack is written, the output stream does not open, or fs::file_size throws
\* on one of the files and leaves a partly written pack.
BuildPackFaults(packFileSet) ==
    {"none", "cannot_create"} \cup (IF packFileSet = {} THEN {} ELSE {"file_size"})

\* The Result of buildPack under a fault.
BuildPackResult(fault) ==
    IF fault = "cannot_create" THEN ErrCannotCreatePack
    ELSE IF fault = "file_size" THEN ErrPackCreationFailed
    ELSE Ok

\* The pack files after a buildPack call on pack `name` (0 is Base.nmres, l is
\* Lang_<l>.nmres) with the given files: an ofstream that opens truncates the
\* file at that path.
PacksAfter(name, files, fault) ==
    IF fault = "cannot_create" THEN packs
    ELSE {e \in packs : e.name # name}
            \cup {[name |-> name, whole |-> fault = "none", files |-> files]}

\* packResources, lines 692-737: the Base pack.
PackBegin ==
    /\ Running /\ pc = "pack_begin"
    /\ begun' = Append(begun, 3)
    /\ LET st0 == BeginStep(Now, "Pack", "Creating resource packs") IN
       \E fault \in {"create_directories"} \cup BuildPackFaults(BaseFiles) :
          Fault(fault) /\
          IF fault = "create_directories"
          THEN /\ m_progress' = st0.p
               /\ reports' = st0.r
               /\ CatchException
               /\ UNCHANGED <<loopVars, packs, packErrors>>
          ELSE IF ~m_config.packAssets
          THEN LET st == EndStep(LogMessage(st0, <<"Skipping pack creation (packAssets=false)">>), TRUE, <<>>) IN
               /\ fault = "none"
               /\ m_progress' = st.p
               /\ reports' = st.r
               /\ StageReturns(Ok, "gate_bundle")
               /\ UNCHANGED <<loopVars, packs, packErrors>>
          ELSE LET st1 == UpdateProgress(st0, 1, 10)
                   baseResult == BuildPackResult(fault)
               IN  /\ packs' = PacksAfter(0, BaseFiles, fault)
                   /\ IF baseResult # Ok
                      THEN LET st == EndStep(st1, FALSE, baseResult) IN
                           /\ m_progress' = st.p
                           /\ reports' = st.r
                           /\ packErrors' = packErrors \cup {[name |-> 0, fault |-> fault]}
                           /\ StageReturns(baseResult, "gate_bundle")
                           /\ UNCHANGED loopVars
                      ELSE /\ m_progress' = st1.p
                           /\ reports' = st1.r
                           /\ loopIndex' = 0
                           /\ langPacksBuilt' = 0
                           /\ hasErrors' = hasErrors
                           /\ packErrors' = packErrors
                           /\ pc' = IF m_config.languages > 0 THEN "pack_loop"
                                    ELSE "pack_finish"
                           /\ UNCHANGED <<success, errorMessage, stageError>>
    /\ UNCHANGED <<callerOwned, filesVars, outVars, stagingExists, staging, processed,
                   packsIndex, manifest, endVars>>

\* packResources, line 771.
WarnLangPack == "Failed to create language pack for "

\* packResources, lines 770-775: the warning of a failed language pack.
WithLangPackResult(p, l, built) ==
    IF built THEN p ELSE [p EXCEPT !.warnings = @ \cup {<<l, WarnLangPack>>}]

\* packResources, lines 741-777: one iteration of the per-language loop.  A
\* language without files is passed over; a failed buildPack is a warning.
\* stepProgress is 0.3 + 0.6 * langPacksBuilt / languages.
PackLoop ==
    /\ Running /\ pc = "pack_loop"
    /\ IF m_cancelRequested
       THEN LET st == EndStep(Now, FALSE, <<"Cancelled">>) IN
            /\ m_progress' = st.p
            /\ reports' = st.r
            /\ StageReturns(ErrCancelled, "gate_bundle")
            /\ UNCHANGED <<loopVars, packs, packErrors, faultVars>>
       ELSE LET n == m_config.languages
                l == loopIndex + 1
                st == UpdateProgress(Now, 3 * n + 6 * langPacksBuilt, 10 * n)
            IN  /\ reports' = st.r
                /\ IF LangPackWanted(LangFiles(l))
                   THEN \E fault \in BuildPackFaults(LangFiles(l)) :
                           /\ FaultAsWarning(fault)
                           /\ m_progress' = WithLangPackResult(st.p, l, fault = "none")
                           /\ packs' = PacksAfter(l, LangFiles(l), fault)
                           /\ packErrors' = IF fault = "none" THEN packErrors
                                            ELSE packErrors \cup {[name |-> l, fault |-> fault]}
                           /\ langPacksBuilt' = IF fault = "none" THEN langPacksBuilt + 1
                                                ELSE langPacksBuilt
                   ELSE /\ m_progress' = st.p
                        /\ UNCHANGED <<packs, packErrors, langPacksBuilt, faultVars>>
                /\ loopIndex' = loopIndex + 1
                /\ hasErrors' = hasErrors
                /\ pc' = IF loopIndex + 1 < n THEN "pack_loop" ELSE "pack_finish"
                /\ UNCHANGED <<success, errorMessage, stageError>>
    /\ UNCHANGED <<callerOwned, filesVars, outVars, stagingExists, staging, processed,
                   packsIndex, manifest, begun, endVars>>

\* Lines 789-810: the index lists Base, then in the order of includedLanguages
\* every language whose pack file exists.
RECURSIVE IndexEntries(_, _)
IndexEntries(l, n) ==
    IF l > n THEN <<>>
    ELSE (IF \E e \in packs : e.name = l THEN <<l>> ELSE <<>>) \o IndexEntries(l + 1, n)

\* packResources, lines 779-823: packs_index.json, written when its stream opens.
PackFinish ==
    /\ Running /\ pc = "pack_finish"
    /\ \E fault \in {"none", "index_not_opened"} :
          /\ Fault(fault)
          /\ packsIndex' = IF fault = "none" THEN <<0>> \o IndexEntries(1, m_config.languages)
                           ELSE packsIndex
    /\ LET st == EndStep(LogMessage(UpdateProgress(Now, 19, 20),
                                 <<"Created Base pack and language packs">>), TRUE, <<>>) IN
       /\ m_progress' = st.p
       /\ reports' = st.r
    /\ StageReturns(Ok, "gate_bundle")
    /\ UNCHANGED <<callerOwned, packErrors, filesVars, loopVars, outVars, stagingExists,
                   staging, processed, packs, manifest, begun, endVars>>

\* -------------------------------------------------------- Stage 4: Bundle
\* generateExecutable, lines 826-830.
BundleBegin ==
    /\ Running /\ pc = "bundle_begin"
    /\ begun' = Append(begun, 4)
    /\ LET st == UpdateProgress(BeginStep(Now, "Bundle", "Creating runtime bundle"), 2, 10) IN
       /\ m_progress' = st.p
       /\ reports' = st.r
    /\ pc' = "bundle_body"
    /\ UNCHANGED <<callerOwned, packErrors, faultVars, filesVars, loopVars, outVars, stgVars, success, errorMessage,
                   stageError, endVars>>

\* buildLinuxExecutable, lines 1445-1447: <executableName>_launcher.sh.
LauncherFile == "launcher"

\* generateExecutable, line 867: config/runtime_config.json.
RuntimeConfigFile == "runtime_config.json"

\* generateExecutable, lines 838-906: the platform builder returns ok whether
\* or not its stream opened (lines 1420-1432, 1445-1457), and the
\* configuration is written only if its stream opened (line 869); the stage
\* returns ok in every case.
BundleResult(launcherOpened, configOpened) == Ok

\* generateExecutable, lines 832-907.  The platform builders (lines 1408-1525)
\* return ok whether or not the launcher stream opened; fs::permissions,
\* create_directories and fs::copy in them can throw.
BundleBody ==
    /\ Running /\ pc = "bundle_body"
    /\ \E fault \in {"none", "throw"}, launcherOpened \in BOOLEAN, configOpened \in BOOLEAN :
          Fault(fault) /\
          IF fault = "throw"
          THEN /\ launcherOpened /\ ~configOpened
               /\ staging' = staging \cup {LauncherFile}
               /\ UNCHANGED <<m_progress, reports>>
               /\ CatchException
          ELSE LET result == BundleResult(launcherOpened, configOpened)
                   st == IF result = Ok
                         THEN EndStep(LogMessage(UpdateProgress(Now, 8, 10),
                                                 <<"Runtime bundle created">>), TRUE, <<>>)
                         ELSE EndStep(Now, FALSE, result)
               IN
               /\ staging' = staging \cup {"config"}
                                \cup (IF launcherOpened THEN {LauncherFile} ELSE {})
                                \cup (IF configOpened THEN {RuntimeConfigFile} ELSE {})
               /\ m_progress' = st.p
               /\ reports' = st.r
               /\ StageReturns(result, "gate_verify")
    /\ UNCHANGED <<callerOwned, packErrors, filesVars, loopVars, outVars, stagingExists, stgFiles, begun,
                   endVars>>

\* -------------------------------------------------------- Stage 5: Verify
\* signAndFinalize, lines 910-915.
VerifyBegin ==
    /\ Running /\ pc = "verify_begin"
    /\ begun' = Append(begun, 5)
    /\ LET st == UpdateProgress(
                    BeginStep(Now, "Verify", "Verifying and finalizing build"), 2, 10)
       IN  /\ m_progress' = st.p
           /\ reports' = st.r
    /\ pc' = "verify_body"
    /\ UNCHANGED <<callerOwned, packErrors, faultVars, filesVars, loopVars, outVars, stgVars, success, errorMessage,
                   stageError, endVars>>

\* BuildUtils::calculateDirectorySize, lines 115-127, and the loop of lines
\* 967-973: file_size summed over the regular files of a tree.  The files
\* the model tracks are taken as one byte long.
DirectorySize(files) == Cardinality(files)

\* The regular files under .staging/packs.
PacksDirFiles ==
    {<<"packs", e.name>> : e \in packs}
       \cup (IF packsIndex # <<>> THEN {<<"packs", "index", "packs_index.json">>} ELSE {})

\* The regular files under .staging: the packs, the processed assets, and one
\* file for each other entry that is not a directory created empty.
StagingFiles ==
    PacksDirFiles \cup {<<"assets", a>> : a \in processed}
       \cup {<<n>> : n \in staging \ {"packs", "assets", "config", "logs", "saves", "compiled"}}

\* The regular files under the output path.
OutputFiles == {<<e>> : e \in outDir} \cup {<<"packs", e>> : e \in outPacks}

\* signAndFinalize, lines 917-987.  A pack file that cannot be opened fails
\* the stage (there are pack files only when packAssets is set); the
\* directory iterators can throw.
VerifyBody ==
    /\ Running /\ pc = "verify_body"
    /\ \E fault \in {"none", "unreadable_pack", "throw"} :
          Fault(fault) /\
          IF fault = "throw"
          THEN /\ UNCHANGED <<m_progress, reports, m_lastResult, verified>>
               /\ CatchException
          ELSE IF fault = "unreadable_pack"
          THEN LET st == EndStep(Now, FALSE, <<"Cannot read pack file: ">>) IN
               /\ m_config.packAssets
               /\ m_progress' = st.p
               /\ reports' = st.r
               /\ StageReturns(<<"Pack file verification failed: ">>, "gate_promote")
               /\ UNCHANGED <<m_lastResult, verified>>
          ELSE LET st == EndStep(LogMessage(UpdateProgress(UpdateProgress(Now, 5, 10), 9, 10),
                                       <<"Build verification complete">>), TRUE, <<>>)
               IN  /\ m_progress' = st.p
                   /\ reports' = st.r
                   /\ m_lastResult' = [m_lastResult EXCEPT
                                           !.totalSize = DirectorySize(StagingFiles),
                                           !.compressedSize = DirectorySize(PacksDirFiles)]
                   /\ verified' = [measured |-> TRUE,
                                   totalSize |-> DirectorySize(StagingFiles),
                                   compressedSize |-> DirectorySize(PacksDirFiles)]
                   /\ StageReturns(Ok, "gate_promote")
    /\ UNCHANGED <<callerOwned, packErrors, filesVars, loopVars, outVars, stgVars, begun,
                   completions, m_buildInProgress, m_buildThread, activeWorkers, cleanupRan,
                   staged>>

\* ------------------------------------------------------------- promotion
\* runBuildPipeline, lines 383-393: "Remove existing output if present".
\* finalOutput is the output path itself and stagingDir lies inside it, so
\* finalOutput != stagingDir always holds and remove_all(finalOutput) takes
\* the staging tree with it.
PromoteClear ==
    /\ Running /\ pc = "promote_clear"
    /\ \E fault \in {"none", "throw"} :
          Fault(fault) /\
          IF fault = "throw"
          THEN /\ CatchException
               /\ UNCHANGED <<outVars, stgVars>>
          ELSE /\ IF outExists
                  THEN /\ outExists' = FALSE
                       /\ outDir' = {}
                       /\ outPacks' = {}
                       /\ stagingExists' = FALSE
                       /\ staging' = {}
                       /\ NoStagedFiles
                  ELSE UNCHANGED <<outVars, stgVars>>
               /\ pc' = "promote_move"
               /\ UNCHANGED <<success, errorMessage, stageError>>
    /\ UNCHANGED <<callerOwned, packErrors, m_progress, reports, filesVars, loopVars, begun, endVars>>

\* runBuildPipeline, lines 395-405: every entry of the staging directory is
\* renamed into the output directory, then the staging directory is removed.
\* fs::directory_iterator throws when the staging directory does not exist,
\* fs::rename when the output directory does not.
PromoteMove ==
    /\ Running /\ pc = "promote_move"
    /\ IF ~stagingExists \/ ~outExists
       THEN /\ CatchException
            /\ thrown' = thrown \cup {"fatal"}
            /\ UNCHANGED <<outVars, stgVars>>
       ELSE /\ outDir' = {e \in outDir : e[1] \notin staging} \cup {NewEntry(n) : n \in staging}
            /\ thrown' = thrown
            /\ outPacks' = IF "packs" \in staging THEN packs ELSE outPacks
            /\ outExists' = outExists
            /\ stagingExists' = FALSE
            /\ staging' = {}
            /\ NoStagedFiles
            /\ pc' = "cleanup"
            /\ UNCHANGED <<success, errorMessage, stageError>>
    /\ UNCHANGED <<callerOwned, packErrors, fsFault, m_progress, reports, filesVars, loopVars, begun, endVars>>

\* ----------------------------------------------------- end of the pipeline
\* Mutant: cleanup never removes the staging tree.
CleanupRemoves_Never == FALSE

\* cleanup, line 991: the staging tree is removed unless the progress record
\* says the build was successful.
CleanupRemoves == ~m_progress.wasSuccessful

\* runBuildPipeline, lines 413-417, with cleanup (lines 989-1002).
Cleanup ==
    /\ Running /\ pc = "cleanup"
    /\ IF CleanupRemoves /\ stagingExists
       THEN /\ stagingExists' = FALSE
            /\ staging' = {}
            /\ NoStagedFiles
       ELSE UNCHANGED stgVars
    /\ cleanupRan' = TRUE
    /\ pc' = "result_success"
    /\ UNCHANGED <<callerOwned, packErrors, faultVars, m_progress, reports, filesVars, loopVars, outVars, begun,
                   success, errorMessage, stageError, m_lastResult, completions,
                   m_buildInProgress, m_buildThread, activeWorkers, staged, verified>>

\* Mutant: the final success flag ignores the cancel request.
FinalSuccess_IgnoresCancel == success

\* Mutant: the two arms of the conditional of line 427 are swapped.
FinalMessage_Swapped == IF m_cancelRequested THEN errorMessage ELSE ErrCancelled

\* runBuildPipeline, lines 425 and 442: success && !m_cancelRequested.
FinalSuccess == success /\ ~m_cancelRequested

\* runBuildPipeline, line 427.
FinalMessage == IF m_cancelRequested THEN ErrCancelled ELSE errorMessage

\* runBuildPipeline, lines 424-425.
SetResultSuccess ==
    /\ Running /\ pc = "result_success"
    /\ m_lastResult' = [DefaultResult EXCEPT !.success = FinalSuccess]
    /\ pc' = "result_message"
    /\ UNCHANGED <<callerOwned, packErrors, faultVars, m_progress, reports, filesVars, loopVars, outVars, stgVars,
                   begun, success, errorMessage, stageError, completions, m_buildInProgress,
                   m_buildThread, activeWorkers, cleanupRan, staged, verified>>

\* runBuildPipeline, lines 426-437.
SetResultMessage ==
    /\ Running /\ pc = "result_message"
    /\ m_lastResult' = [m_lastResult EXCEPT !.errorMessage = FinalMessage,
                                            !.scriptsCompiled = Len(m_scriptFiles),
                                            !.assetsProcessed = Len(m_assetFiles),
                                            !.totalSize = IF success /\ outExists
                                                          THEN DirectorySize(OutputFiles)
                                                          ELSE @]
    /\ pc' = "progress_successful"
    /\ UNCHANGED <<callerOwned, packErrors, faultVars, m_progress, reports, filesVars, loopVars, outVars, stgVars,
                   begun, success, errorMessage, stageError, completions, m_buildInProgress,
                   m_buildThread, activeWorkers, cleanupRan, staged, verified>>

\* runBuildPipeline, lines 440-442.
SetProgressSuccessful ==
    /\ Running /\ pc = "progress_successful"
    /\ m_progress' = [m_progress EXCEPT !.isRunning = FALSE, !.isComplete = TRUE,
                                        !.wasSuccessful = FinalSuccess]
    /\ pc' = "progress_cancelled"
    /\ UNCHANGED <<callerOwned, packErrors, faultVars, reports, filesVars, loopVars, outVars, stgVars, begun,
                   success, errorMessage, stageError, endVars>>

\* Mutant: the progress record never reports a cancellation.
CancelObserved_Never == FALSE

\* runBuildPipeline, line 443: m_cancelRequested.load().
CancelObserved == m_cancelRequested

\* runBuildPipeline, lines 443-444.
SetProgressCancelled ==
    /\ Running /\ pc = "progress_cancelled"
    /\ m_progress' = [m_progress EXCEPT !.wasCancelled = CancelObserved]
    /\ pc' = "notify"
    /\ UNCHANGED <<callerOwned, packErrors, faultVars, reports, filesVars, loopVars, outVars, stgVars, begun,
                   success, errorMessage, stageError, endVars>>

\* What the completion callback is handed and can observe when it is called.
Observed ==
    [result |-> m_lastResult, progress |-> m_progress, stagingExists |-> stagingExists,
     outDir |-> outDir, outExists |-> outExists, cancelRequested |-> m_cancelRequested,
     cleanupRan |-> cleanupRan, preOut |-> preOut, staged |-> staged, cancelPc |-> cancelPc,
     stageError |-> stageError, fsFault |-> fsFault, thrown |-> thrown, begun |-> begun,
     packErrors |-> packErrors, packs |-> packs, outPacks |-> outPacks,
     preStaging |-> preStaging, staging |-> staging]

\* Mutant: the completion callback is called for successful builds only.
OnBuildCompleteSet_SuccessOnly == m_lastResult.success

\* runBuildPipeline, line 447: the callback is called when one is registered
\* (one is, in this model).
OnBuildCompleteSet == TRUE

\* runBuildPipeline, lines 446-449: m_onBuildComplete(m_lastResult).
NotifyCompletion ==
    /\ Running /\ pc = "notify"
    /\ completions' = IF OnBuildCompleteSet THEN Append(completions, Observed)
                      ELSE completions
    /\ pc' = "finish"
    /\ verified' = NoSizes
    /\ UNCHANGED <<callerOwned, packErrors, faultVars, m_progress, reports, filesVars, loopVars, outVars, stgVars,
                   begun, success, errorMessage, stageError, m_lastResult, m_buildInProgress,
                   m_buildThread, activeWorkers, cleanupRan, staged>>

\* runBuildPipeline, lines 451-452: the flag is cleared and the thread function
\* returns; nothing joins the thread.
FinishWorker ==
    /\ Running /\ pc = "finish"
    /\ m_buildInProgress' = FALSE
    /\ m_buildThread' = "finished"
    /\ activeWorkers' = activeWorkers - 1
    /\ pc' = "done"
    /\ UNCHANGED <<callerOwned, packErrors, faultVars, m_progress, reports, filesVars, loopVars, outVars, stgVars,
                   begun, success, errorMessage, stageError, m_lastResult, completions,
                   cleanupRan, staged, verified>>

\* ---------------------------------------------------------- specification
Worker ==
    \/ PrepareStaging \/ StageGate
    \/ PreflightBegin \/ PreflightBody
    \/ CompileBegin \/ CompileLoop \/ CompileFinish
    \/ IndexBegin \/ IndexLoop \/ IndexFinish
    \/ PackBegin \/ PackLoop \/ PackFinish
    \/ BundleBegin \/ BundleBody
    \/ VerifyBegin \/ VerifyBody
    \/ PromoteClear \/ PromoteMove
    \/ Cleanup \/ SetResultSuccess \/ SetResultMessage
    \/ SetProgressSuccessful \/ SetProgressCancelled
    \/ NotifyCompletion \/ FinishWorker

\* The caller starts a build when none is running.
CallerStartsBuild == \E config \in ValidConfigs : ~m_buildInProgress /\ StartBuild(config)

\* The caller calls startBuild at any time, with any configuration.
CallerCallsStartBuild == \E config \in Configs : StartBuild(config)

Next == CallerStartsBuild \/ CancelBuild \/ Worker

NextApi == CallerCallsStartBuild \/ CancelBuild \/ Worker

\* Spec: every project tree and output directory; the caller starts builds
\* with valid configurations and cancels at any moment.
Spec == Init /\ [][Next]_vars

\* SpecApi: one project tree; the caller calls startBuild with any
\* configuration at any moment, also while a build is running.
SpecApi == InitApi /\ [][NextApi]_vars

\* The worker thread has a step to take: from its start to its return no
\* statement of runBuildPipeline waits for anything.
WorkerCanStep == Running /\ pc # "done"

\* The worker thread is scheduled: weak fairness of Worker, with the
\* enabling condition of Worker written out as WorkerCanStep.
WorkerScheduled == []<>(~WorkerCanStep) \/ []<><<Worker>>_vars

\* Every project tree and one populated output directory without a staging tree.
InitLive ==
    /\ InitOver(Projects, {o \in InitialOutputs : o.exists /\ ~o.stale})
    /\ NoPackCall
    /\ NoAnalysis

\* A project with one script and the four assets, built into an output path with nothing
\* under it.
InitNested ==
    /\ InitOver({[json |-> TRUE, scriptsDir |-> TRUE, assetsDir |-> TRUE, scripts |-> 4,
                  assets |-> 4]},
                {o \in InitialOutputs : ~o.exists})
    /\ NoPackCall
    /\ NoAnalysis

\* SpecNested: the builds of a project with four scripts (balanced, with an
\* open brace, empty, with a stray parenthesis) and an asset under two
\* language directories.
SpecNested == InitNested /\ [][Next]_vars

\* SpecLive: the builds of Spec with a worker thread that is scheduled.
SpecLive == InitLive /\ [][Next]_vars /\ WorkerScheduled

\* A buildPack call taken by itself: the call, with the arguments Init drew.
CallBuildPack ==
    /\ packResult = <<>>
    /\ LET r == BuildPack(packCreatable, packFiles) IN
       /\ packResult' = r.result
       /\ packFile' = r.file
    /\ UNCHANGED <<buildVars, packFiles, packCreatable, analyzeVars>>

InitPack ==
    /\ InitOver({p \in Projects : ~p.json}, {o \in InitialOutputs : ~o.exists})
    /\ packFiles \in SeqsUpTo(PackInputs, MaxPackFiles)
    /\ packCreatable \in BOOLEAN
    /\ packResult = <<>>
    /\ packFile = EmptyPackFile
    /\ NoAnalysis

NextPack == CallBuildPack

\* SpecPack: one buildPack call on every list of at most MaxPackFiles files.
SpecPack == InitPack /\ [][NextPack]_vars

\* ----------------------------------------------------------- analyze()
\* Mutant: the map keeps the paths of the call before.
ClearedHashToFiles_Kept(map) == map

\* analyze, line 219: m_hashToFiles.clear().
ClearedHashToFiles(map) == <<>>

\* analyze, lines 217-224, with scanAssets (lines 554-646): the analysis is
\* reset and every listed file becomes an asset.
AnalyzeBegin ==
    /\ analyzePc \in {"idle", "done"}
    /\ analyzeCalls < MaxAnalyzeCalls
    /\ analyzeCalls' = analyzeCalls + 1
    /\ previous' = IF analyzePc = "done" THEN m_analysis ELSE previous
    /\ optResult' = NoOptCall
    /\ m_analysis' = [DefaultAnalysis EXCEPT
                         !.assets = [i \in DOMAIN listing |-> ScannedAsset(listing[i])],
                         !.totalFileCount = Len(listing)]
    /\ m_hashToFiles' = ClearedHashToFiles(m_hashToFiles)
    /\ analyzeIndex' = 1
    /\ analyzePc' = IF listing = <<>> THEN "detect" ELSE "analyze_assets"
    /\ UNCHANGED <<buildVars, packVars, categorized, listing, m_analyzerConfig, generated>>

\* analyzeAsset, lines 648-691: the thresholds of the asset's category.
IsOversized(asset, config) ==
    \/ asset.category = "Images" /\ asset.originalSize > config.largeImageThreshold
    \/ asset.category = "Audio" /\ asset.originalSize > config.largeAudioThreshold

\* analyze, lines 228-234: one turn of the loop, analyzeAsset on assets[i].
AnalyzeAsset ==
    /\ analyzePc = "analyze_assets"
    /\ LET i == analyzeIndex
           asset == m_analysis.assets[i]
           hash == ComputeFileHash(listing[i])
       IN  /\ m_hashToFiles' = IF hash \in DOMAIN m_hashToFiles
                               THEN [m_hashToFiles EXCEPT ![hash] = Append(@, asset.path)]
                               ELSE m_hashToFiles @@ (hash :> <<asset.path>>)
           /\ m_analysis' = [m_analysis EXCEPT
                                !.assets[i].isOversized = IsOversized(asset, m_analyzerConfig),
                                !.totalOriginalSize = @ + asset.originalSize]
           /\ analyzeIndex' = i + 1
           /\ analyzePc' = IF i = Len(m_analysis.assets) THEN "detect" ELSE "analyze_assets"
    /\ UNCHANGED <<buildVars, packVars, categorized, listing, m_analyzerConfig, generated, previous, analyzeCalls, optResult>>

\* analyze, lines 237-246: detectDuplicates when the configuration asks for
\* it; detectUnused (lines 733-741) marks nothing.
DetectStep ==
    /\ analyzePc = "detect"
    /\ IF m_analyzerConfig.detectDuplicates
       THEN LET outcomes == {DetectDuplicates(m_analysis, m_hashToFiles, order) :
                                order \in Orderings(DOMAIN m_hashToFiles)}
            IN  \E r \in outcomes : m_analysis' = r
       ELSE UNCHANGED m_analysis
    /\ analyzePc' = "suggest"
    /\ UNCHANGED <<buildVars, packVars, categorized, listing, m_analyzerConfig, m_hashToFiles, analyzeIndex,
                   generated, previous, analyzeCalls, optResult>>

\* analyze, lines 249-252: generateSuggestions (lines 743-818) when the
\* configuration asks for it.
SuggestStep ==
    /\ analyzePc = "suggest"
    /\ IF m_analyzerConfig.generateSuggestions
       THEN LET list == GeneratedSuggestions(m_analysis) IN
            /\ generated' = list
            /\ \E sorted \in RepeatOrAny(SortOutcomes(list), list = generated,
                                           previous.suggestions) :
                  m_analysis' = [m_analysis EXCEPT
                                    !.suggestions = sorted,
                                    !.potentialSavings = SumOver(list, "estimatedSavings")]
       ELSE UNCHANGED <<m_analysis, generated>>
    /\ analyzePc' = "summaries"
    /\ UNCHANGED <<buildVars, packVars, categorized, listing, m_analyzerConfig, m_hashToFiles, analyzeIndex,
                   previous, analyzeCalls, optResult>>

\* analyze, lines 255-272: calculateSummaries (lines 820-862), then the
\* analysis is returned.
SummariesStep ==
    /\ analyzePc = "summaries"
    /\ \E summaries \in RepeatOrAny(SummaryOutcomes(m_analysis.assets),
                                    m_analysis.assets = previous.assets,
                                    previous.categorySummaries) :
          m_analysis' = [m_analysis EXCEPT !.categorySummaries = summaries]
    /\ analyzePc' = "done"
    /\ UNCHANGED <<buildVars, packVars, categorized, listing, m_analyzerConfig, m_hashToFiles, analyzeIndex,
                   generated, previous, analyzeCalls, optResult>>

\* ------------------------------------------- the optimization entry points
\* An entry point that returns its Result and touches nothing.
OptCallReturns(call, result) ==
    /\ analyzePc \in {"idle", "done"}
    /\ optResult' = [call |-> call, result |-> result]
    /\ UNCHANGED <<buildVars, packVars, categorized, listing, m_analyzerConfig, m_analysis, m_hashToFiles,
                   analyzePc, analyzeIndex, generated, previous, analyzeCalls>>

\* applyOptimization, lines 293-298, on a suggestion of the stored analysis.
ApplyOptimization ==
    \E n \in DOMAIN m_analysis.suggestions :
        OptCallReturns("applyOptimization", ApplyOptimizationResult(m_analysis.suggestions[n]))

\* removeDuplicates, lines 320-323.
RemoveDuplicates == OptCallReturns("removeDuplicates", ErrDuplicateRemovalNotImplemented)

\* removeUnusedAssets, lines 325-328.
RemoveUnusedAssets == OptCallReturns("removeUnusedAssets", ErrUnusedRemovalNotImplemented)

\* applyAllAutoOptimizations, lines 300-318: applyOptimization on every
\* auto-fixable suggestion; analyze() again when one of them returned ok
\* (the Result is that of the analysis), otherwise ok is returned.
ApplyAllAutoOptimizations ==
    LET S == m_analysis.suggestions
        applied == Cardinality({n \in DOMAIN S :
                                   S[n].canAutoFix /\ ApplyOptimizationResult(S[n]) = Ok})
    IN  IF applied > 0
        THEN AnalyzeBegin
        ELSE OptCallReturns("applyAllAutoOptimizations", Ok)

\* analyze() on every listing of at most MaxAnalyzed files, under every
\* configuration of the two switches.
InitAnalyze ==
    /\ InitOver({p \in Projects : ~p.json}, {o \in InitialOutputs : ~o.exists})
    /\ NoPackCall
    /\ listing \in Listings(MaxAnalyzed)
    /\ m_analyzerConfig \in AnalysisConfigs
    /\ m_analysis = DefaultAnalysis
    /\ m_hashToFiles = <<>>
    /\ analyzePc = "idle"
    /\ analyzeIndex = 0
    /\ generated = <<>>
    /\ previous = DefaultAnalysis
    /\ analyzeCalls = 0
    /\ optResult = NoOptCall
    /\ categorized = NoCategorizeCall

\* categorizeAsset, lines 929-967, called by itself on a path.
CategorizeAssetCall ==
    /\ \E path \in CategorizedPaths :
          categorized' = [path |-> path, category |-> CategorizeAsset(path)]
    /\ UNCHANGED <<buildVars, packVars, listing, m_analyzerConfig, m_analysis, m_hashToFiles,
                   analyzePc, analyzeIndex, generated, previous, analyzeCalls, optResult>>

InitCategorize ==
    /\ InitOver({p \in Projects : ~p.json}, {o \in InitialOutputs : ~o.exists})
    /\ NoPackCall
    /\ NoAnalysis

\* SpecCategorize: categorizeAsset on every path of CategorizedPaths.
SpecCategorize == InitCategorize /\ [][CategorizeAssetCall]_vars

\* The first analyze() call of an analyzer.
FirstAnalyze == analyzePc = "idle" /\ AnalyzeBegin

NextAnalyze == FirstAnalyze \/ AnalyzeAsset \/ DetectStep \/ SuggestStep \/ SummariesStep

\* SpecAnalyze: one analyze() call.
SpecAnalyze == InitAnalyze /\ [][NextAnalyze]_vars

\* Every listing of at most MaxReanalyzed of the files analysed more than
\* once, under every configuration
\* of the two switches.
InitReanalyze ==
    /\ InitOver({p \in Projects : ~p.json}, {o \in InitialOutputs : ~o.exists})
    /\ NoPackCall
    /\ listing \in ReanalyzedListings(MaxReanalyzed)
    /\ m_analyzerConfig \in AnalysisConfigs
    /\ m_analysis = DefaultAnalysis
    /\ m_hashToFiles = <<>>
    /\ analyzePc = "idle"
    /\ analyzeIndex = 0
    /\ generated = <<>>
    /\ previous = DefaultAnalysis
    /\ analyzeCalls = 0
    /\ optResult = NoOptCall
    /\ categorized = NoCategorizeCall

NextReanalyze ==
    \/ AnalyzeBegin \/ AnalyzeAsset \/ DetectStep \/ SuggestStep \/ SummariesStep
    \/ ApplyOptimization \/ RemoveDuplicates \/ RemoveUnusedAssets
    \/ ApplyAllAutoOptimizations

\* SpecReanalyze: up to MaxAnalyzeCalls analyze() calls on an unchanged tree
\* and configuration, with calls of the optimization entry points between them.
SpecReanalyze == InitReanalyze /\ [][NextReanalyze]_vars

\* ================================================================ claims
AllStagesSucceeded(p) ==
    /\ Len(p.steps) = 6
    /\ \A i \in 1..6 : p.steps[i].completed /\ p.steps[i].success

\* Worker positions inside the stages Preflight, Compile, Index and Pack.
EarlyStagePcs ==
    {"preflight_begin", "preflight_body", "compile_begin", "compile_loop", "compile_finish",
     "index_begin", "index_loop", "index_finish", "pack_begin", "pack_loop", "pack_finish"}

\* What a rejected startBuild call must leave alone.
RejectedCallFrame ==
    <<m_buildInProgress, m_cancelRequested, m_config, m_progress, m_buildThread,
      activeWorkers, workerVars, fsVars>>

\* C1: while a build is in progress, every startBuild call returns "Build
\* already in progress", starts no worker and leaves the running build's
\* config, progress and worker untouched; at most one worker exists at any time.
C1_OneBuildAtATime ==
    /\ [](activeWorkers <= 1)
    /\ [][(startTick' # startTick /\ m_buildInProgress) =>
              /\ startResult' = ErrAlreadyInProgress
              /\ UNCHANGED RejectedCallFrame]_vars

C1_Witness ==
    /\ m_buildInProgress
    /\ pc = "pack_loop"
    /\ startResult = ErrAlreadyInProgress
    /\ startArg \in ValidConfigs

\* C2: onBuildComplete has been called once for every build startBuild
\* started, except for the running build as long as its worker has not reached
\* the call; in particular exactly once when the worker has finished.
C2_CompletionOnce ==
    Len(completions) =
        buildsStarted - (IF m_buildThread = "running" /\ pc # "finish" THEN 1 ELSE 0)

C2_Witness ==
    /\ pc = "done"
    /\ Len(completions) = 1
    /\ completions[1].result.errorMessage = ErrException
    /\ completions[1].begun # <<>>

\* C3 (as claimed): when all six stages succeeded, no cancel was requested and
\* no file-system call failed, the completion callback sees success = true, no
\* staging directory, and every staged entry directly under the output path.
C3_PromotedOnSuccess ==
    \A i \in DOMAIN completions :
        LET c == completions[i] IN
        (AllStagesSucceeded(c.progress) /\ ~c.cancelRequested /\ ~c.fsFault) =>
            /\ c.result.success
            /\ ~c.stagingExists
            /\ \A n \in c.staged : NewEntry(n) \in c.outDir

\* C4 (as claimed): when the build failed or was cancelled (and no file-system
\* call failed), everything that was under the output path before the build is
\* still there, unchanged, when the completion callback is called.
C4_OutputKeptOnFailure ==
    \A i \in DOMAIN completions :
        LET c == completions[i] IN
        (~c.result.success /\ ~c.fsFault) => c.preOut \subseteq c.outDir

BadPathsGiven ==
    \/ startArg'.projectPath = ""
    \/ startArg'.outputPath = ""
    \/ startArg'.projectPath # ProjectDir

\* C6 (as claimed): a startBuild call with an empty projectPath, an empty
\* outputPath or a non-existent projectPath returns an error, which mentions
\* the path when the project does not exist, and changes nothing.
C6_BadPathsRejected ==
    [][(startTick' # startTick /\ BadPathsGiven) =>
          /\ startResult' # Ok
          /\ (startArg'.projectPath \notin {"", ProjectDir} =>
                Mentions(startResult', startArg'.projectPath))
          /\ UNCHANGED RejectedCallFrame]_vars

\* C6 (amended): such a call returns an error and changes nothing; the error
\* mentions the non-existent project path when no build is in progress and
\* the outputPath is not empty.
C6_BadPathsRejectedAmended ==
    [][(startTick' # startTick /\ BadPathsGiven) =>
          /\ startResult' # Ok
          /\ (/\ startArg'.projectPath \notin {"", ProjectDir}
              /\ startArg'.outputPath # ""
              /\ ~m_buildInProgress
              => Mentions(startResult', startArg'.projectPath))
          /\ UNCHANGED RejectedCallFrame]_vars

C6_Witness ==
    /\ startArg.projectPath = "missing"
    /\ startArg.outputPath = "out"
    /\ startResult = ErrProjectMissing("missing")
    /\ ~m_buildInProgress
    /\ m_buildThread = "null"
    /\ pc = "idle"

\* C7: beginStep runs for the stages in the order Preflight .. Verify without
\* a gap, and every stage before the one begun last has ended with success
\* (so no two stages run at once and none begins after a failed one).
C7_StagesInOrder ==
    /\ \A i \in DOMAIN begun : begun[i] = i - 1
    /\ \A i \in DOMAIN begun :
          i < Len(begun) => m_progress.steps[i].completed /\ m_progress.steps[i].success

C7_Witness == Len(begun) = 6 /\ pc = "gate_promote" /\ AllStagesSucceeded(m_progress)

\* C8: when a stage returned an error and no cancel was requested, the
\* completion callback gets success = false and that error as errorMessage,
\* and cleanup() ran before it.
C8_StageErrorReported ==
    \A i \in DOMAIN completions :
        LET c == completions[i] IN
        (c.stageError # <<>> /\ ~c.cancelRequested) =>
            /\ ~c.result.success
            /\ c.result.errorMessage = c.stageError
            /\ c.cleanupRan

C8_Witness ==
    /\ Len(completions) = 1
    /\ completions[1].stageError = <<"One or more scripts failed to compile">>
    /\ ~completions[1].cancelRequested

\* C9: the progress values handed to onProgressUpdate within one build never
\* decrease and stay within [0, 1].
C9_ProgressMonotone ==
    /\ \A i \in DOMAIN reports : i < Len(reports) => reports[i] <= reports[i + 1]
    /\ \A i \in DOMAIN reports : reports[i] >= 0 /\ reports[i] <= ProgressOne
    /\ m_progress.progress >= 0 /\ m_progress.progress <= ProgressOne

C9_Witness ==
    /\ pc = "notify"
    /\ Len(begun) = 6
    /\ m_scriptFiles = <<>>
    /\ m_config.languages > 0
    /\ langPacksBuilt = 0
    /\ reports[Len(reports)] > reports[1]

\* The installed weights, added up in f32 in step order.
InstalledWeightSum == F32Sum([i \in 1..6 |-> F32Literal(InitialSteps[i].progressWeight)])

\* C10: the six installed step weights sum to exactly 1.0 (in f32, and as
\* 100 hundredths), and the steps of a build keep their names and weights.
C10_WeightsSumToOne ==
    /\ InstalledWeightSum = F32One
    /\ SumSeq([i \in 1..6 |-> InitialSteps[i].progressWeight]) = 100
    /\ m_progress.steps # <<>> =>
          /\ Len(m_progress.steps) = 6
          /\ \A i \in 1..6 :
                /\ m_progress.steps[i].name = InitialSteps[i].name
                /\ m_progress.steps[i].progressWeight = InitialSteps[i].progressWeight

C10_Witness ==
    /\ pc = "notify"
    /\ Len(m_progress.steps) = 6
    /\ \E i \in 1..6 : m_progress.steps[i].completed /\ ~m_progress.steps[i].success

\* What a reader finds at a resource-table record's place in the data section
\* (-1 where the data section ends before the record's bytes do).
DataAt(file, rec) ==
    [j \in 1..rec.uncompressedSize |->
        IF rec.dataOffset + j <= Len(file.data) THEN file.data[rec.dataOffset + j] ELSE -1]

\* C11 (as claimed): when buildPack returns success for N files, the pack has
\* resourceCount = N, N table records and N names in input order, the
\* uncompressedSize fields sum to the sum of the input file sizes, and the
\* data section holds each file's bytes at the dataOffset recorded for it.
C11_PackRoundTrip ==
    packResult = Ok =>
        LET n == Len(packFiles) IN
        /\ packFile.resourceCount = n
        /\ Len(packFile.table) = n
        /\ Len(packFile.names) = n
        /\ \A i \in 1..n :
              /\ packFile.names[i] = packFiles[i].name
              /\ packFile.table[i].stringIdOffset = packFile.stringOffsets[i]
        /\ SumSeq([i \in 1..n |-> packFile.table[i].uncompressedSize])
              = SumSeq([i \in 1..n |-> Len(packFiles[i].bytes)])
        /\ \A i \in 1..n : DataAt(packFile, packFile.table[i]) = packFiles[i].bytes

C11_Witness ==
    /\ packResult = Ok
    /\ Len(packFiles) = 2
    /\ packFiles[1].bytes = <<>>
    /\ packFiles[2].bytes = <<1, 2>>
    /\ packFiles[2].status = "regular"
    /\ packFile.data = <<>>

\* C12 (as claimed): buildPack returns an error whenever an input file cannot
\* be opened for reading or the output file cannot be created.
C12_PackErrors ==
    (/\ packResult # <<>>
     /\ \/ ~packCreatable
        \/ \E i \in DOMAIN packFiles : packFiles[i].status # "regular")
    => packResult # Ok

C12_Witness ==
    /\ packResult = Ok
    /\ packCreatable
    /\ Len(packFiles) = 1
    /\ packFiles[1].status = "unreadable"

LangsWithAssets ==
    {l \in 1..m_config.languages :
        \E a \in m_assetMapping :
            \E i \in 1..(Len(AssetVfsPath(a)) - 1) : AssetVfsPath(a)[i] = LangName(l)}

C15_ValidationKeepsOutput ==
    \A i \in DOMAIN completions :
        LET c == completions[i] IN
        (/\ c.stageError # <<>>
         /\ c.stageError[1] = "Project validation failed:"
         /\ ~c.fsFault)
        =>
        /\ ~c.result.success
        /\ c.begun = <<0>>
        /\ c.preOut \subseteq c.outDir
        /\ c.preStaging.exists => (c.stagingExists /\ c.preStaging.entries \subseteq c.staging)

C15_Witness ==
    /\ Len(completions) = 1
    /\ completions[1].stageError # <<>>
    /\ completions[1].stageError[1] = "Project validation failed:"
    /\ completions[1].begun = <<0>>
    /\ completions[1].preStaging = [exists |-> TRUE, entries |-> {"stale"}]
    /\ ~completions[1].stagingExists
    /\ completions[1].preOut \subseteq completions[1].outDir

\* A stage failed and cancelBuild was not called during the build: the
\* callback sees wasCancelled = false and the stage's error, not "Build cancelled".
StageFailureReportedAsFailure(c) ==
    (c.stageError # <<>> /\ c.cancelPc = "none") =>
        /\ ~c.progress.wasCancelled
        /\ c.result.errorMessage = c.stageError
        /\ c.result.errorMessage # ErrCancelled

\* C16 (as claimed): wasCancelled is true at the completion callback exactly
\* when cancelBuild was called while the build was in progress, and a stage
\* failure without a cancel is reported as a failure.
C16_CancelledIffCancelCalled ==
    \A i \in DOMAIN completions :
        LET c == completions[i] IN
        /\ c.progress.wasCancelled <=> (c.cancelPc # "none")
        /\ StageFailureReportedAsFailure(c)

\* C16 (amended): wasCancelled is true at the completion callback exactly
\* when cancelBuild was called during the build before the worker read the
\* flag for the progress record (line 443); a call after that read is not
\* reported.  A stage failure without a cancel is reported as a failure.
C16_CancelledIffCancelObserved ==
    \A i \in DOMAIN completions :
        LET c == completions[i] IN
        /\ c.progress.wasCancelled <=> (c.cancelPc \notin {"none", "notify"})
        /\ StageFailureReportedAsFailure(c)

C16_Witness ==
    /\ Len(completions) = 1
    /\ completions[1].cancelPc = "compile_loop"
    /\ completions[1].progress.wasCancelled
    /\ completions[1].stageError = ErrCancelled
    /\ completions[1].result.errorMessage = ErrCancelled
    /\ ~completions[1].result.success

\* The error messages that carry the text of an exception (lines 410, 486, 1404).
ExceptionMessages == {ErrException, <<"Failed to create directories: ">>, ErrPackCreationFailed}

\* The build whose callback saw c was cancelled by the caller.
CancelReported(c) == c.cancelPc # "none" /\ c.result.errorMessage = ErrCancelled

\* C17 (as claimed): a build in which a file-system call threw ends with
\* success = false and an errorMessage that describes the exception.
C17_ExceptionReported ==
    \A i \in DOMAIN completions :
        LET c == completions[i] IN
        c.thrown # {} =>
            /\ ~c.result.success
            /\ c.result.errorMessage \in ExceptionMessages

\* C17 (amended): an exception thrown in a stage or during promotion does not
\* escape the worker: the build ends with success = false, the completion
\* callback is invoked and m_buildInProgress returns to false.  errorMessage
\* carries the exception when the exception failed the stage or reached the
\* catch clause and the caller did not cancel; a cancelled build reports
\* "Build cancelled", and an exception that a stage turned into a warning
\* (asset copy, language pack) is not in errorMessage.
C17_ExceptionContained ==
    /\ [](\A i \in DOMAIN completions :
            LET c == completions[i] IN
            /\ c.thrown # {} => ~c.result.success
            /\ "fatal" \in c.thrown =>
                   \/ c.result.errorMessage \in ExceptionMessages
                   \/ CancelReported(c))
    /\ [](pc = "done" /\ ~terminated => ~m_buildInProgress /\ Len(completions) = buildsStarted)
    /\ ((thrown # {} /\ Running) ~> (pc = "done" /\ ~m_buildInProgress))

C17_Witness ==
    /\ pc = "done" /\ ~m_buildInProgress
    /\ Len(completions) = 1
    /\ completions[1].thrown = {"fatal"}
    /\ completions[1].cancelPc = "none"
    /\ completions[1].begun = <<0, 1, 2>>
    /\ ~completions[1].result.success
    /\ completions[1].result.errorMessage = ErrException

\* C18: while a build is in progress no operation of the caller thread
\* (cancelBuild, a startBuild call) changes m_progress: only the worker
\* thread writes it.
C18_ProgressWrittenByWorkerOnly ==
    [][(m_buildInProgress /\ (CancelBuild \/ CallerCallsStartBuild)) =>
          UNCHANGED m_progress]_vars

\* cancelBuild has pushed its message to m_progress.infoMessages while the
\* worker is inside the compile loop.
C18_Witness ==
    /\ Running /\ m_buildInProgress
    /\ pc = "compile_loop"
    /\ cancelPc = "compile_loop"
    /\ MsgCancelRequested \in m_progress.infoMessages
    /\ <<"Starting: ", "Compile">> \in m_progress.infoMessages

\* The fingerprint of the file at a path, computed from the file.
Fingerprint(path) == ComputeFileHash(CHOOSE f \in AnalyzedFiles : f.path = path)

\* The positions of a path in a duplicate group.
PlacesIn(group, path) == {n \in DOMAIN group.paths : group.paths[n] = path}

\* C19: after detectDuplicates two assets are in one DuplicateGroup exactly
\* when their fingerprints are equal; every group has more than one member,
\* wastedSpace = singleFileSize * (members - 1) with the size of its first
\* member; exactly the members after the first are flagged isDuplicate; and
\* totalWastedSpace is the sum of the groups' wastedSpace.
C19_DuplicateGroups ==
    (analyzePc \in {"suggest", "done"} /\ m_analyzerConfig.detectDuplicates) =>
        LET A == m_analysis.assets
            D == m_analysis.duplicates
        IN  /\ \A i, j \in DOMAIN A :
                  i # j =>
                     ((\E k \in DOMAIN D : /\ PlacesIn(D[k], A[i].path) # {}
                                           /\ PlacesIn(D[k], A[j].path) # {})
                      <=> Fingerprint(A[i].path) = Fingerprint(A[j].path))
            /\ \A k \in DOMAIN D :
                  /\ Len(D[k].paths) > 1
                  /\ \A n \in DOMAIN D[k].paths :
                        /\ PlacesIn(D[k], D[k].paths[n]) = {n}
                        /\ \E i \in DOMAIN A : A[i].path = D[k].paths[n]
                  /\ \A i \in DOMAIN A :
                        A[i].path = D[k].paths[1] => D[k].singleFileSize = A[i].originalSize
                  /\ D[k].wastedSpace = D[k].singleFileSize * (Len(D[k].paths) - 1)
            /\ \A i \in DOMAIN A :
                  A[i].isDuplicate <=>
                     \E k \in DOMAIN D : \E n \in PlacesIn(D[k], A[i].path) : n > 1
            /\ m_analysis.totalWastedSpace = SumOver(D, "wastedSpace")

\* Two groups: two images of the same size whose different bytes hash alike,
\* and the two files that cannot be opened.
C19_Witness ==
    /\ analyzePc = "done"
    /\ Len(m_analysis.duplicates) = 2
    /\ \E k \in DOMAIN m_analysis.duplicates :
          m_analysis.duplicates[k].paths = <<"assets/c.png", "assets/b.png">>
    /\ \E k \in DOMAIN m_analysis.duplicates :
          /\ m_analysis.duplicates[k].hash = <<>>
          /\ m_analysis.duplicates[k].paths = <<"assets/locked.ogg", "assets/locked.bin">>
          /\ m_analysis.duplicates[k].wastedSpace = 5
    /\ m_analysis.totalWastedSpace = 7
    /\ \E i \in DOMAIN m_analysis.assets :
          m_analysis.assets[i].path = "assets/b.png" /\ m_analysis.assets[i].isDuplicate

\* The number of times x occurs in q.
Occurrences(q, x) == Cardinality({i \in DOMAIN q : q[i] = x})

\* C20: when analyze() has returned with suggestion generation enabled, each
\* suggestion's estimatedSavings is >= the next one's, and the list holds
\* every generated suggestion as often as it was generated, and nothing else.
C20_SuggestionsSorted ==
    (analyzePc = "done" /\ m_analyzerConfig.generateSuggestions) =>
        LET S == m_analysis.suggestions IN
        /\ \A i \in 1..(Len(S) - 1) : S[i].estimatedSavings >= S[i + 1].estimatedSavings
        /\ Len(S) = Len(generated)
        /\ \A i \in DOMAIN generated :
              Occurrences(S, generated[i]) = Occurrences(generated, generated[i])

\* Generated in the order 1 (duplicate), 2 (image), 1 (audio), returned in
\* the order 2, 1 (audio), 1 (duplicate).
C20_Witness ==
    /\ analyzePc = "done"
    /\ Len(generated) = 3
    /\ generated[1].type = "RemoveDuplicate" /\ generated[1].estimatedSavings = 1
    /\ generated[2].type = "CompressImage" /\ generated[2].estimatedSavings = 2
    /\ generated[3].type = "CompressAudio" /\ generated[3].estimatedSavings = 1
    /\ m_analysis.suggestions = <<generated[2], generated[3], generated[1]>>

\* The suggestions of a type and an asset path in the returned list.
SuggestionsFor(type, path) ==
    {n \in DOMAIN m_analysis.suggestions :
        /\ m_analysis.suggestions[n].type = type
        /\ m_analysis.suggestions[n].assetPath = path}

\* The asset is over the threshold of its category (Images or Audio).
OverThreshold(asset, category) ==
    /\ asset.category = category
    /\ asset.originalSize > (IF category = "Images"
                             THEN m_analyzerConfig.largeImageThreshold
                             ELSE m_analyzerConfig.largeAudioThreshold)

\* C21: when analyze() has returned with suggestion generation enabled, there
\* is exactly one RemoveDuplicate suggestion per duplicate group (on a member
\* of the group, auto-fixable), exactly one CompressImage suggestion per image
\* over the threshold with savings originalSize / 2, exactly one CompressAudio
\* suggestion per audio asset over the threshold with savings originalSize / 3
\* (neither auto-fixable), no other suggestion, and potentialSavings is the
\* sum of the suggestions' estimatedSavings.
C21_SuggestionsPerFinding ==
    (analyzePc = "done" /\ m_analyzerConfig.generateSuggestions) =>
        LET A == m_analysis.assets
            D == m_analysis.duplicates
            S == m_analysis.suggestions
            images == {i \in DOMAIN A : OverThreshold(A[i], "Images")}
            audio == {i \in DOMAIN A : OverThreshold(A[i], "Audio")}
        IN  /\ \A k \in DOMAIN D :
                  \E n \in DOMAIN S :
                     /\ S[n].type = "RemoveDuplicate" /\ S[n].canAutoFix
                     /\ PlacesIn(D[k], S[n].assetPath) # {}
                     /\ \A m \in DOMAIN S :
                           (S[m].type = "RemoveDuplicate" /\ PlacesIn(D[k], S[m].assetPath) # {})
                              => m = n
            /\ \A i \in DOMAIN A :
                  /\ Cardinality(SuggestionsFor("CompressImage", A[i].path)) =
                        (IF i \in images THEN 1 ELSE 0)
                  /\ Cardinality(SuggestionsFor("CompressAudio", A[i].path)) =
                        (IF i \in audio THEN 1 ELSE 0)
            /\ \A n \in DOMAIN S :
                  /\ S[n].type = "CompressImage" =>
                        \E i \in images : /\ A[i].path = S[n].assetPath
                                          /\ S[n].estimatedSavings = A[i].originalSize \div 2
                                          /\ ~S[n].canAutoFix
                  /\ S[n].type = "CompressAudio" =>
                        \E i \in audio : /\ A[i].path = S[n].assetPath
                                         /\ S[n].estimatedSavings = A[i].originalSize \div 3
                                         /\ ~S[n].canAutoFix
            /\ Len(S) = Len(D) + Cardinality(images) + Cardinality(audio)
            /\ m_analysis.potentialSavings = SumOver(S, "estimatedSavings")

\* One suggestion of each kind: a duplicate of a one-byte image, the image of
\* four bytes and the audio file of five.
C21_Witness ==
    /\ analyzePc = "done"
    /\ Len(m_analysis.duplicates) = 1
    /\ SuggestionsFor("RemoveDuplicate", "assets/copy/a.png") # {}
    /\ SuggestionsFor("CompressImage", "assets/big.png") # {}
    /\ SuggestionsFor("CompressAudio", "assets/locked.ogg") # {}
    /\ Len(m_analysis.suggestions) = 3
    /\ m_analysis.potentialSavings = 4

\* q and r hold the same elements, each as often in one as in the other.
SameElements(q, r) ==
    /\ Len(q) = Len(r)
    /\ \A i \in DOMAIN q : Occurrences(q, q[i]) = Occurrences(r, q[i])

\* C22 as stated: a second analyze() on the unchanged tree and configuration
\* returns the analysis of the call before it, field by field.
C22_SameAnalysis ==
    (analyzePc = "done" /\ analyzeCalls >= 2) => m_analysis = previous

\* C22, amended: a second analyze() on the unchanged tree and configuration
\* returns the same assets, category summaries and running totals, the same
\* duplicate groups and the same suggestions as the call before it; the groups
\* (and with them equal-savings suggestions) can come in another order, and
\* when the groups come in the same order the whole analysis is the same.
C22_SameAnalysisUpToOrder ==
    (analyzePc = "done" /\ analyzeCalls >= 2) =>
        /\ m_analysis.assets = previous.assets
        /\ m_analysis.unusedAssets = previous.unusedAssets
        /\ m_analysis.categorySummaries = previous.categorySummaries
        /\ m_analysis.totalFileCount = previous.totalFileCount
        /\ m_analysis.totalOriginalSize = previous.totalOriginalSize
        /\ m_analysis.totalWastedSpace = previous.totalWastedSpace
        /\ m_analysis.potentialSavings = previous.potentialSavings
        /\ SameElements(m_analysis.duplicates, previous.duplicates)
        /\ SameElements(m_analysis.suggestions, previous.suggestions)
        /\ m_analysis.duplicates = previous.duplicates => m_analysis = previous

\* The second call has returned two duplicate groups in the other order.
C22_Witness ==
    /\ analyzePc = "done"
    /\ analyzeCalls = 2
    /\ Len(m_analysis.duplicates) = 2
    /\ m_analysis.duplicates = <<previous.duplicates[2], previous.duplicates[1]>>
    /\ m_analysis.duplicates # previous.duplicates
    /\ m_analysis.categorySummaries # <<>>
    /\ m_analysis.suggestions # <<>>

\* C23: applyOptimization, removeDuplicates and removeUnusedAssets return a
\* "not yet implemented" error and leave the stored analysis and the tree as
\* they were, and no optimization entry point returns success without having
\* done anything: every return of an entry point is one of the three errors.
C23_OptimizationsNotImplemented ==
    [][(optResult' # optResult /\ optResult'.call # "none") =>
          /\ optResult'.result \in {ErrOptimizationNotImplemented,
                                    ErrDuplicateRemovalNotImplemented,
                                    ErrUnusedRemovalNotImplemented}
          /\ m_analysis' = m_analysis
          /\ listing' = listing]_vars

\* applyAllAutoOptimizations has returned ok on an analysis with an
\* auto-fixable suggestion, none of which was applied.
C23_Witness ==
    /\ optResult = [call |-> "applyAllAutoOptimizations", result |-> Ok]
    /\ \E n \in DOMAIN m_analysis.suggestions : m_analysis.suggestions[n].canAutoFix
    /\ listing # <<>>

\* The extensions of two paths differ in nothing but the case of letters.
SameExtensionButCase(p, q) ==
    /\ Len(Extension(p)) = Len(Extension(q))
    /\ \A i \in DOMAIN Extension(p) : ToUpper(Extension(p)[i]) = ToUpper(Extension(q)[i])

\* The categories with a list of extensions.
CategoryLists ==
    {<<"Images", ImageExtensions>>, <<"Audio", AudioExtensions>>,
     <<"Scripts", ScriptExtensions>>, <<"Fonts", FontExtensions>>,
     <<"Video", VideoExtensions>>, <<"Data", DataExtensions>>}

\* C24: the category categorizeAsset returns depends on the extension alone,
\* compared without regard to case: every path whose extension differs from
\* the categorized one in letter case at most (in particular a path that
\* differs from it only there) gets the same category; the category is that
\* of the list holding a spelling of the extension, and Other exactly when
\* no list holds one.
C24_CategoryByExtension ==
    categorized.category # "none" =>
        LET twins == {q \in CategorizedPaths : SameExtensionButCase(categorized.path, q)}
            spellings == {Join(Extension(q)) : q \in twins}
        IN  /\ \A q \in twins : CategorizeAsset(q) = categorized.category
            /\ \A list \in CategoryLists :
                  categorized.category = list[1] <=> spellings \cap list[2] # {}
            /\ categorized.category = "Other" <=>
                  \A list \in CategoryLists : spellings \cap list[2] = {}

\* "a.PnG" was categorized as an image.
C24_Witness ==
    /\ categorized.path = <<"a", ".", "P", "n", "G">>
    /\ categorized.category = "Images"

\* C25: m_lastResult is written at the end of the pipeline only (lines
\* 424-437): no step of the worker before it, and no call, changes it.
C25_ResultWrittenAtPipelineEndOnly ==
    [][m_lastResult' # m_lastResult => pc \in {"result_success", "result_message"}]_vars

\* The Verify stage has returned and the pipeline has not come to its end:
\* no completion callback has run, the build is in progress, and m_lastResult
\* holds the sizes signAndFinalize measured.
C25_Witness ==
    /\ Running /\ m_buildInProgress
    /\ pc = "gate_promote"
    /\ completions = <<>>
    /\ m_lastResult.totalSize > 0
    /\ m_lastResult.compressedSize > 0
    /\ ~m_lastResult.success /\ m_lastResult.errorMessage = <<>>

\* A step of the worker taken with the cancel flag set begins no stage other
\* than the one whose guard had let it pass before the flag was set, and
\* starts no item of the script loop of Compile or the language loop of Pack:
\* the loop ends the stage with "Build cancelled".
NoFurtherStageOrItem ==
    /\ (m_cancelRequested /\ Len(begun') > Len(begun)) => cancelPc = pc
    /\ (m_cancelRequested /\ Running /\ pc \in {"compile_loop", "pack_loop"} /\ pc' # pc) =>
          /\ <<loopIndex, hasErrors, langPacksBuilt, packs>>' =
                <<loopIndex, hasErrors, langPacksBuilt, packs>>
          /\ stageError' = ErrCancelled
          /\ pc' \in {"gate_index", "gate_bundle"}

\* The completion callback sees a cancelled build.
EndsAsCancelled(c) ==
    /\ ~c.result.success
    /\ c.result.errorMessage = ErrCancelled
    /\ c.progress.wasCancelled

\* Worker positions from line 427 on: the result has its success flag.
ResultPcs == {"result_message", "progress_successful", "progress_cancelled", "notify"}

LanguagesOf(a) ==
    {l \in 1..m_config.languages :
        \E i \in 1..(Len(AssetVfsPath(a)) - 1) : AssetVfsPath(a)[i] = LangName(l)}

\* The packs of the staging tree that hold the asset.
PacksHolding(a) == {e.name : e \in {x \in packs : a \in x.files}}

\* The Pack stage has ended with success, with packAssets set and every
\* buildPack call without an error.
PackStageDone ==
    /\ pc = "gate_bundle"
    /\ m_config.packAssets
    /\ packErrors = {}
    /\ begun = <<0, 1, 2, 3>>
    /\ m_progress.steps[4].completed /\ m_progress.steps[4].success

PackFileLength(file) ==
    HeaderSize + ResourceEntrySize * Len(file.table)
       + 4 + 4 * Len(file.stringOffsets)
       + SumSeq([i \in DOMAIN file.names |-> Len(file.names[i]) + 1])
       + Len(file.data) + (IF file.footer THEN FooterSize ELSE 0)

\* C28: in a pack buildPack wrote (it returned success), record i of the
\* resource table has dataOffset = the sum of the sizes of the records before
\* it and stringOffset = the sum of (name length + 1) over the names before
\* it, and the header has resourceTableOffset < stringTableOffset <
\* dataOffset <= totalFileSize with totalFileSize the length of the file.
C28_PackOffsets ==
    packResult = Ok =>
        /\ \A i \in DOMAIN packFile.table :
              /\ packFile.table[i].dataOffset =
                    SumSeq([j \in 1..(i - 1) |-> packFile.table[j].uncompressedSize])
              /\ packFile.table[i].stringIdOffset =
                    SumSeq([j \in 1..(i - 1) |-> Len(packFile.names[j]) + 1])
        /\ packFile.resourceTableOffset < packFile.stringTableOffset
        /\ packFile.stringTableOffset < packFile.dataOffset
        /\ packFile.dataOffset <= packFile.totalFileSize
        /\ packFile.totalFileSize = PackFileLength(packFile)

\* buildPack returned success on an empty file followed by a file of two
\* bytes: the table has its two records, the header still holds the zeros
\* written as placeholders, and the file ends after the string table.
C28_Witness ==
    /\ packResult = Ok
    /\ Len(packFiles) = 2
    /\ packFiles[1].bytes = <<>> /\ packFiles[1].status = "regular"
    /\ packFiles[2].bytes = <<1, 2>>
    /\ Len(packFile.table) = 2
    /\ packFile.table[2].dataOffset = 0
    /\ packFile.totalFileSize = 0 /\ packFile.dataOffset = 0
    /\ PackFileLength(packFile) > 0
    /\ ~packFile.footer

\* ------------------------------------------------------------------ C29
\* The scripts whose file could not be opened, as m_progress.errors records.
Unopened(p) == {s \in 1..4 : <<s, ErrCannotOpen>> \in p.errors}

\* The warnings the stage owes a script whose file opened: one for an empty
\* file, one for braces and one for parentheses that do not pair up.
OwedWarnings(s) ==
    LET source == ScriptSource(s)
        Opens(c) == Cardinality({i \in DOMAIN source : source[i] = c})
    IN  (IF Len(source) = 0 THEN {WarnEmpty} ELSE {})
        \cup (IF Opens("{") # Opens("}") THEN {WarnBraces} ELSE {})
        \cup (IF Opens("(") # Opens(")") THEN {WarnParens} ELSE {})

CompilePcs == {"compile_begin", "compile_loop", "compile_finish"}

\* The worker leaves the Compile stage in this step.
CompileReturns == Running /\ pc \in CompilePcs /\ pc' \notin CompilePcs

\* The scripts the loop of this stage has been through.
Compiled == IF pc = "compile_begin" THEN {} ELSE {m_scriptFiles[i] : i \in 1..loopIndex'}

\* Imbalance and emptiness are warnings only, and a failed Compile leaves no
\* bytecode container.
WarningsOnlyAndNoContainer ==
    /\ \A s \in Compiled \ Unopened(m_progress') :
          {w[2] : w \in {x \in m_progress'.warnings : x[1] = s}} = OwedWarnings(s)
    /\ \A s \in Unopened(m_progress') : \A x \in m_progress'.warnings : x[1] # s
    /\ ~success' => BytecodeFile \notin staging'

\* C29 as stated: the Compile stage fails with the compilation-failed error
\* exactly when at least one collected script cannot be opened; unbalanced
\* braces or parentheses and empty files only append warnings, and after a
\* failed Compile no bytecode container is written.
C29_FailsExactlyWhenUnopened ==
    [][CompileReturns =>
          /\ (~success' /\ errorMessage' = ErrScriptsFailed) <=> Unopened(m_progress') # {}
          /\ WarningsOnlyAndNoContainer]_vars

\* C29, amended: the Compile stage fails whenever a collected script cannot
\* be opened, and with the compilation-failed error exactly when it went
\* through all its scripts and one could not be opened (a cancellation seen
\* after the unreadable script returns "Build cancelled" instead); unbalanced
\* braces or parentheses and empty files only append warnings, and after a
\* failed Compile no bytecode container is written.
C29_FailsWhenUnopened ==
    [][CompileReturns =>
          /\ Unopened(m_progress') # {} => ~success'
          /\ (~success' /\ errorMessage' = ErrScriptsFailed)
                <=> (pc = "compile_finish" /\ Unopened(m_progress') # {})
          /\ WarningsOnlyAndNoContainer]_vars

\* Compile went through four scripts that all opened, recorded the warnings
\* of the three flawed ones and wrote the container.
C29_WitnessWarningsOnly ==
    /\ pc = "gate_index" /\ success
    /\ Len(m_scriptFiles) = 4
    /\ BytecodeFile \in staging
    /\ m_progress.errors = {}
    /\ {<<2, WarnBraces>>, <<3, WarnEmpty>>, <<4, WarnParens>>} \subseteq m_progress.warnings

\* Compile found the third script unreadable, failed with the
\* compilation-failed error and wrote no container.
C29_Witness ==
    /\ pc = "gate_index" /\ ~success
    /\ errorMessage = ErrScriptsFailed
    /\ Unopened(m_progress) = {3}
    /\ <<2, WarnBraces>> \in m_progress.warnings
    /\ BytecodeFile \notin staging

\* ------------------------------------------------------------------ C30
\* The assets the Index stage collected.
CollectedAssets == {m_assetFiles[i] : i \in DOMAIN m_assetFiles}

\* The assets with an asset-processing warning in progress record p.
WarnedAssets(p) == {a \in 1..4 : <<a, WarnAssetProcessing>> \in p.warnings}

\* The step in which the loop of Index handles one asset: the asset is
\* mapped; when its processor failed (no processed file) the step adds the
\* asset's warning and nothing else to the warnings, the stage goes on to the
\* next asset or to the manifest, and no error is recorded.
IndexHandlesAsset ==
    (Running /\ pc = "index_loop" /\ loopIndex' = loopIndex + 1) =>
        LET a == m_assetFiles[loopIndex + 1] IN
        /\ a \in m_assetMapping'
        /\ pc' = (IF loopIndex' < Len(m_assetFiles) THEN "index_loop" ELSE "index_finish")
        /\ <<success, errorMessage, stageError>>' = <<success, errorMessage, stageError>>
        /\ m_progress'.warnings =
              m_progress.warnings
                 \cup (IF a \in processed' THEN {} ELSE {<<a, WarnAssetProcessing>>})

\* The step in which Index returns after its loop: it returns success, every
\* collected asset is mapped, every asset without a warning has its
\* processed file, and a manifest that was written lists every mapping under
\* a resource_count equal to their number.
IndexReturnsAfterLoop ==
    (Running /\ pc = "index_finish" /\ pc' # pc) =>
        /\ pc' = "gate_pack"
        /\ <<success, errorMessage, stageError>>' = <<success, errorMessage, stageError>>
        /\ m_assetMapping' = CollectedAssets
        /\ processed' = CollectedAssets \ WarnedAssets(m_progress')
        /\ manifest'.written =>
              /\ manifest'.resources = {<<a, AssetVfsPath(a)>> : a \in m_assetMapping'}
              /\ manifest'.resource_count = Cardinality(m_assetMapping')
              /\ manifest'.resource_count = Len(m_assetFiles)

\* C30: a failure to process a single asset in the Index stage only appends
\* a warning: the stage still returns success, the remaining assets are
\* processed, the failed asset's mapping is recorded, and the manifest lists
\* every mapping with resource_count equal to the number of mappings.
C30_FailedAssetIsWarning == [][IndexHandlesAsset /\ IndexReturnsAfterLoop]_vars

\* Index returned success over two assets of which the first failed: the
\* second was processed, both are mapped and the manifest counts two.
C30_Witness ==
    /\ pc = "gate_pack" /\ success
    /\ m_assetFiles = <<1, 2>>
    /\ WarnedAssets(m_progress) = {1}
    /\ processed = {2}
    /\ manifest.written /\ manifest.resource_count = 2
    /\ <<1, AssetVfsPath(1)>> \in manifest.resources

\* ------------------------------------------------------------------ C31
\* C31: after a build that ran the Verify stage, the BuildResult handed to
\* the completion callback carries the compressedSize (bytes under the staged
\* packs directory) and the totalSize (bytes of the staged tree) that Verify
\* computed.
C31_CallbackCarriesVerifiedSizes ==
    [][(verified.measured /\ completions' # completions) =>
          LET c == completions'[Len(completions')] IN
          /\ c.result.compressedSize = verified.compressedSize
          /\ c.result.totalSize = verified.totalSize]_vars

\* The callback is due after a build whose Verify stage measured a staged
\* tree with pack files, and the result it will be handed holds no sizes.
C31_Witness ==
    /\ Running /\ pc = "notify"
    /\ 5 \in {begun[i] : i \in DOMAIN begun}
    /\ verified.measured
    /\ verified.compressedSize > 0 /\ verified.totalSize > 0
    /\ m_lastResult.compressedSize = 0 /\ m_lastResult.totalSize = 0

\* ------------------------------------------------------------------ C32
\* The staged bundle lacks the launcher or config/runtime_config.json.
BundleIncomplete(entries) == LauncherFile \notin entries \/ RuntimeConfigFile \notin entries

\* C32: when writing the launcher or config/runtime_config.json fails in the
\* Bundle stage, the stage returns an error and the build ends with
\* success = false; no build succeeds with one of the two missing.
C32_BundleFailureFailsBuild ==
    [][/\ (Running /\ pc = "bundle_body" /\ pc' # pc /\ BundleIncomplete(staging')) =>
             ~success' /\ pc' \in {"gate_verify", "cleanup"}
       /\ completions' # completions =>
             LET c == completions'[Len(completions')] IN
             (4 \in {c.begun[i] : i \in DOMAIN c.begun} /\ BundleIncomplete(c.staged)) =>
                ~c.result.success]_vars

\* The Bundle stage has returned success and the worker is about to enter
\* Verify, with neither a launcher nor a runtime_config.json in the staging
\* tree.
C32_Witness ==
    /\ Running /\ pc = "gate_verify" /\ success
    /\ begun # <<>> /\ begun[Len(begun)] = 4
    /\ LauncherFile \notin staging /\ RuntimeConfigFile \notin staging
    /\ Len(m_progress.steps) = 6
    /\ m_progress.steps[5].completed /\ m_progress.steps[5].success

\* ------------------------------------------------------------------ C33
\* C33: after a build has completed (m_buildInProgress is false again), a
\* later startBuild with a valid config is accepted and starts a fresh
\* pipeline, also when the previous thread object has finished and was never
\* joined; each completion callback receives the result of its own build.
C33_RestartAfterCompletion ==
    [][/\ (startTick' # startTick /\ ~m_buildInProgress /\ startArg' \in ValidConfigs) =>
             /\ startResult' = Ok
             /\ ~terminated'
             /\ m_buildThread' = "running" /\ pc' = "prepare_staging"
             /\ buildsStarted' = buildsStarted + 1
       /\ completions' # completions =>
             /\ Len(completions') = buildsStarted
             /\ completions'[Len(completions')].result = m_lastResult]_vars

\* The first build completed and delivered its result, its thread returned
\* and was never joined, and the second startBuild ended in std::terminate.
C33_Witness ==
    /\ terminated
    /\ buildsStarted = 1 /\ Len(completions) = 1
    /\ m_buildThread = "finished" /\ pc = "done"
    /\ startArg \in ValidConfigs
    /\ startResult = <<"std::terminate">>

C35_CancelledBuildNotPromoted ==
    \A i \in DOMAIN completions :
        LET c == completions[i] IN
        (c.progress.wasCancelled /\ ~c.result.success) =>
            /\ \A e \in c.outDir : e[2] # "new"
            /\ c.preOut \subseteq c.outDir

\* cancelBuild arrived after the guard of the promotion had passed: the
\* callback saw a cancelled build and an output directory emptied of the
\* file it held before.
C35_Witness ==
    /\ Len(completions) = 1
    /\ completions[1].cancelPc = "promote_clear"
    /\ completions[1].progress.wasCancelled /\ ~completions[1].result.success
    /\ OldEntry("userfile") \in completions[1].preOut
    /\ completions[1].outDir = {}

\* ------------------------------------------------------------------ C36
\* C36: packs_index.json lists Lang_<l>.nmres only if the buildPack call for
\* language l returned success in this build; a language pack whose
\* buildPack failed is never listed.
C36_IndexListsBuiltPacksOnly ==
    \A i \in DOMAIN packsIndex :
        packsIndex[i] # 0 =>
            /\ \A e \in packErrors : e.name # packsIndex[i]
            /\ \E e \in packs : e.name = packsIndex[i] /\ e.whole

\* The Pack stage returned success after the buildPack call of the first
\* language had failed half-way (a warning), and the index lists that
\* language's pack.
C36_Witness ==
    /\ Running /\ pc = "gate_bundle" /\ success
    /\ [name |-> 1, fault |-> "file_size"] \in packErrors
    /\ <<1, WarnLangPack>> \in m_progress.warnings
    /\ \E i \in DOMAIN packsIndex : packsIndex[i] = 1

\* ------------------------------------------------------------------ C37
\* C37: within one pack written by buildPack, distinct input files get
\* distinct resource names in the string table, also when two of them have
\* the same file name in different directories.
C37_DistinctResourceNames ==
    packResult = Ok =>
        \A i, j \in DOMAIN packFiles :
            packFiles[i].path # packFiles[j].path =>
                /\ i \in DOMAIN packFile.names /\ j \in DOMAIN packFile.names
                /\ packFile.names[i] # packFile.names[j]

\* buildPack returned success on assets/a.png and assets/en/a.png: the pack
\* holds the bytes of both under the one name "a.png".
C37_Witness ==
    /\ packResult = Ok
    /\ Len(packFiles) = 2
    /\ packFiles[1].path = "assets/a.png" /\ packFiles[2].path = "assets/en/a.png"
    /\ packFile.names = <<"a.png", "a.png">>
    /\ packFile.data = <<1, 2, 3>>
    /\ packFile.footer

\* ------------------------------------------------------------------ C38
\* endStep marks the step completed in the same breath as it calls
\* onStepComplete (lines 1057-1063), so a step has had its callback exactly
\* when its record says completed.
StepNotified(p, k) == Len(p.steps) = 6 /\ p.steps[k + 1].completed

\* C38: for every step for which beginStep ran, onStepComplete is delivered
\* exactly once, with completed = true, before the next step begins or the
\* completion callback fires, on every exit path of the stage.
C38_StepCompleteDelivered ==
    [][/\ (Len(begun') > Len(begun) /\ begun # <<>>) =>
             StepNotified(m_progress, begun[Len(begun)])
       /\ completions' # completions =>
             LET c == completions'[Len(completions')] IN
             \A i \in DOMAIN c.begun : StepNotified(c.progress, c.begun[i])
       /\ startTick' = startTick =>
             \A i \in DOMAIN m_progress.steps :
                 m_progress.steps[i].completed =>
                     m_progress'.steps[i] = m_progress.steps[i]]_vars

\* The completion callback fired after create_directories had thrown in the
\* Compile stage: beginStep("Compile") ran, endStep never did.
C38_Witness ==
    /\ Len(completions) = 1
    /\ completions[1].begun = <<0, 1>>
    /\ "fatal" \in completions[1].thrown
    /\ completions[1].progress.steps[1].completed
    /\ ~completions[1].progress.steps[2].completed
    /\ completions[1].result.errorMessage = ErrException

\* ---------------------------------------------------------------------------
\* Counts of the result
\* ---------------------------------------------------------------------------

\* The scripts compileScripts went through in this build: none when Compile
\* never began, all of m_scriptFiles once Index began (Compile returned ok),
\* and otherwise the files counted in m_progress so far.
ScriptsCompiledSoFar ==
    IF 1 \notin Range(begun) THEN 0
    ELSE IF 2 \in Range(begun) THEN Len(m_scriptFiles)
    ELSE m_progress.filesProcessed

\* The assets processAssets went through in this build.
AssetsProcessedSoFar ==
    IF 2 \notin Range(begun) THEN 0
    ELSE m_progress.filesProcessed - Len(m_scriptFiles)

\* C39: the result handed to the completion callback counts the scripts this
\* build compiled and the assets this build processed, also when the build
\* failed in Preflight or was cancelled in the middle of Compile.
C39_CountsAreOfThisBuild ==
    [][completions' # completions =>
          LET c == completions'[Len(completions')] IN
          /\ c.result.scriptsCompiled = ScriptsCompiledSoFar
          /\ c.result.assetsProcessed = AssetsProcessedSoFar]_vars

\* A build of two scripts and two assets, cancelled in the script loop after
\* one script, reports two scripts compiled and two assets processed.
C39_Witness ==
    /\ Len(completions) = 1
    /\ completions[1].cancelPc = "compile_loop"
    /\ completions[1].begun = <<0, 1>>
    /\ completions[1].progress.filesProcessed = 1
    /\ completions[1].progress.wasCancelled
    /\ completions[1].result.scriptsCompiled = 2
    /\ completions[1].result.assetsProcessed = 2

\* ---------------------------------------------------------------------------
\* Sizes within a duplicate group
\* ---------------------------------------------------------------------------

\* The originalSize analyze() recorded for a path.
RecordedSize(path) ==
    LET A == m_analysis.assets
    IN  A[CHOOSE i \in DOMAIN A : A[i].path = path].originalSize

\* The bytes taken by the members of a group after the first.
RedundantBytes(group) ==
    SumSeq([n \in 1..(Len(group.paths) - 1) |-> RecordedSize(group.paths[n + 1])])

\* C40: every DuplicateGroup of analyze() holds files of one size only, so
\* that its wastedSpace is the bytes taken by its members after the first;
\* also the group of the files that could not be opened.
C40_GroupMembersOfEqualSize ==
    (analyzePc \in {"suggest", "done"} /\ m_analyzerConfig.detectDuplicates) =>
        \A k \in DOMAIN m_analysis.duplicates :
           LET g == m_analysis.duplicates[k] IN
           /\ \A n \in DOMAIN g.paths : RecordedSize(g.paths[n]) = g.singleFileSize
           /\ g.wastedSpace = RedundantBytes(g)

\* The two files that cannot be opened, of five bytes and of one byte, are one
\* group that reports five wasted bytes where the second member takes one.
C40_Witness ==
    /\ analyzePc = "done"
    /\ \E k \in DOMAIN m_analysis.duplicates :
          LET g == m_analysis.duplicates[k] IN
          /\ g.hash = <<>>
          /\ g.paths = <<"assets/locked.ogg", "assets/locked.bin">>
          /\ g.singleFileSize = 5
          /\ RecordedSize("assets/locked.bin") = 1
          /\ g.wastedSpace = 5
          /\ RedundantBytes(g) = 1

====
